---------------------------- MODULE Spec2Model ----------------------------
(***************************************************************************)
(* Model of the computational core of f8vision-web:                        *)
(*  - class FamilyGraph: focal person determination, node and edge         *)
(*    construction, sibling inference, breadth-first generation            *)
(*    assignment, and the accessors of a finished graph;                   *)
(*  - the parser's validateFamilyData and calculateBiographyWeight;        *)
(*  - class BarnesHutTree: build, insert and calculateForce;                *)
(*  - class ForceDirectedLayout: calculate and the passes it calls.         *)
(*                                                                         *)
(* Strings are sequences of UTF-16 code units (45 is '-', 97.. are 'a'..), *)
(* so that Array.prototype.sort and join('-') behave as in the source.     *)
(* Edge strengths are kept in tenths (1.0 -> 10, 0.8 -> 8, 0.6 -> 6).      *)
(* A reference list that is undefined is the empty list: the constructor   *)
(* loops over neither. Person ids are non-empty and, for the constructor,  *)
(* unique, as the data format demands. The fields the constructor writes   *)
(* but never reads (position, velocity, biographyWeight, events, notes)    *)
(* are left out.                                                           *)
(*                                                                         *)
(* Biography weights are kept in ten-thousandths, rounded down. The        *)
(* numbers of the octree are exact fractions, so the rounding of floating  *)
(* point is left out; a force is kept as the list of the regions whose     *)
(* terms it sums. The call stack of the engine is MaxStack calls deep.     *)
(*                                                                         *)
(* The numbers of the layout are fixed-point: positions in whole units,    *)
(* velocities and forces in thousandths, distances in tenths, every result *)
(* cut toward zero; the cooling multiplier is an exact fraction.           *)
(* Math.random is a generator given by its seed and the number of values   *)
(* drawn, so that two runs can draw the same values.                       *)
(***************************************************************************)
EXTENDS Integers, Sequences, FiniteSets, TLC

VARIABLES
    familyData,   \* the FamilyData handed to the constructor
    pc,           \* position inside the constructor or inside calculate
    centeredId,   \* FamilyGraph.centeredId
    nodeOrder,    \* keys of FamilyGraph.nodes in insertion order
    generation,   \* node id -> GraphNode.generation
    connections,  \* node id -> GraphNode.connections
    edges,        \* FamilyGraph.edges, the argument edges of calculate
    visited,      \* calculateGenerations: visited
    queue,        \* calculateGenerations: queue
    firstBuild,   \* what an earlier FamilyGraph of the same dataset holds
    query,        \* the last accessor call on the finished graph and its result
    biography,    \* calculateBiographyWeight: its argument
    weight,       \* calculateBiographyWeight: its result
    errors,       \* validateFamilyData: its result
    positions,    \* BarnesHutTree.build: its argument
    root,         \* BarnesHutTree.root
    force,        \* the last calculateForce call and the regions it used
    nodes,        \* ForceDirectedLayout.calculate: its argument nodes
    config,       \* ForceDirectedLayout.config
    useBarnesHut, \* ForceDirectedLayout.useBarnesHut
    iteration,    \* calculate: the loop counter i
    random,       \* Math.random: its seed and the number of values drawn
    calls,        \* the number of calculate calls so far
    earlier       \* what the previous calculate call was given and left

\* The FamilyGraph under construction.
graphVars == <<familyData, pc, centeredId, nodeOrder, generation, connections,
               edges, visited, queue>>

\* What the constructor of FamilyGraph does not touch.
\* The parser's functions.
parserVars == <<biography, weight, errors>>

\* The Barnes-Hut octree.
treeVars == <<positions, root, force>>

\* The layout solver.
layoutVars == <<nodes, config, useBarnesHut, iteration, random, calls, earlier>>

restVars == <<firstBuild, query, parserVars, treeVars, layoutVars>>

vars == <<graphVars, restVars>>

---------------------------------------------------------------------------
(* Values *)

\* An optional value (string | undefined, string | null, number | undefined)
\* is a sequence of at most one element.
None == <<>>
Some(x) == <<x>>

\* The person identifiers used in the datasets: "b", "a", "c", "a-b", "b-c".
IdA == <<97>>
IdB == <<98>>
IdC == <<99>>
IdAB == <<97, 45, 98>>
IdBC == <<98, 45, 99>>

EmptyString == <<>>

RangeOf(s) == {s[i] : i \in 1..Len(s)}

---------------------------------------------------------------------------
(* String primitives of the runtime *)

\* s < t for strings, by UTF-16 code units (the default comparison of sort()).
StrLess(s, t) ==
    \E i \in 1..(Len(s) + 1) :
        /\ \A j \in 1..(i - 1) : j <= Len(t) /\ s[j] = t[j]
        /\ \/ i = Len(s) + 1 /\ Len(t) >= i
           \/ i <= Len(s) /\ i <= Len(t) /\ s[i] < t[i]

\* [x, y].sort()
SortPair(x, y) == IF StrLess(y, x) THEN <<y, x>> ELSE <<x, y>>

\* pair.join('-')
JoinPair(p) == p[1] \o <<45>> \o p[2]

\* The code units of the three edge type names.
TypeName(type) ==
    CASE type = "parent-child" ->
            <<112, 97, 114, 101, 110, 116, 45, 99, 104, 105, 108, 100>>
      [] type = "spouse" -> <<115, 112, 111, 117, 115, 101>>
      [] type = "sibling" -> <<115, 105, 98, 108, 105, 110, 103>>

\* JavaScript truthiness of an optional string: undefined, null and '' are
\* falsy.
Truthy(opt) == opt # None /\ opt[1] # EmptyString

MathMin(x, y) == IF x < y THEN x ELSE y

MathMax(x, y) == IF x > y THEN x ELSE y

---------------------------------------------------------------------------
(* FamilyGraph: focal person and nodes *)

\* Array.prototype.find: the first of the matching indices, or 0 (undefined).
FirstIndex(matching) ==
    IF matching = {} THEN 0
    ELSE CHOOSE i \in matching : \A j \in matching : i <= j

IsGen0Complete(p) == p.generation = Some(0) /\ p.status = "complete"

IsGen0(p) == p.generation = Some(0)

Gen0CompletePeople(people) == {i \in 1..Len(people) : IsGen0Complete(people[i])}

Gen0People(people) == {i \in 1..Len(people) : IsGen0(people[i])}

\* determineCenteredPerson with the two generation-0 rules in the wrong order.
DetermineCenteredPersonAnyGen0First(fd) ==
    IF Truthy(fd.meta.centeredPersonId)
    THEN fd.meta.centeredPersonId[1]
    ELSE LET gen0Person == FirstIndex(Gen0CompletePeople(fd.people))
             anyGen0 == FirstIndex(Gen0People(fd.people))
         IN  IF anyGen0 # 0 THEN fd.people[anyGen0].id
             ELSE IF gen0Person # 0 THEN fd.people[gen0Person].id
             ELSE IF Len(fd.people) > 0 /\ Truthy(Some(fd.people[1].id))
                  THEN fd.people[1].id
                  ELSE EmptyString

\* determineCenteredPerson falling back to the last person of the list.
DetermineCenteredPersonLastPerson(fd) ==
    IF Truthy(fd.meta.centeredPersonId)
    THEN fd.meta.centeredPersonId[1]
    ELSE LET gen0Person == FirstIndex(Gen0CompletePeople(fd.people))
             anyGen0 == FirstIndex(Gen0People(fd.people))
         IN  IF gen0Person # 0 THEN fd.people[gen0Person].id
             ELSE IF anyGen0 # 0 THEN fd.people[anyGen0].id
             ELSE IF Len(fd.people) > 0 /\ Truthy(Some(fd.people[Len(fd.people)].id))
                  THEN fd.people[Len(fd.people)].id
                  ELSE EmptyString

\* determineCenteredPerson ignoring a meta.centeredPersonId that names nobody.
DetermineCenteredPersonKnownOnly(fd) ==
    IF /\ Truthy(fd.meta.centeredPersonId)
       /\ \E i \in 1..Len(fd.people) : fd.people[i].id = fd.meta.centeredPersonId[1]
    THEN fd.meta.centeredPersonId[1]
    ELSE LET gen0Person == FirstIndex(Gen0CompletePeople(fd.people))
             anyGen0 == FirstIndex(Gen0People(fd.people))
         IN  IF gen0Person # 0 THEN fd.people[gen0Person].id
             ELSE IF anyGen0 # 0 THEN fd.people[anyGen0].id
             ELSE IF Len(fd.people) > 0 /\ Truthy(Some(fd.people[1].id))
                  THEN fd.people[1].id
                  ELSE EmptyString

DetermineCenteredPerson(fd) ==
    IF Truthy(fd.meta.centeredPersonId)
    THEN fd.meta.centeredPersonId[1]
    ELSE LET gen0Person == FirstIndex(Gen0CompletePeople(fd.people))
             anyGen0 == FirstIndex(Gen0People(fd.people))
         IN  IF gen0Person # 0 THEN fd.people[gen0Person].id
             ELSE IF anyGen0 # 0 THEN fd.people[anyGen0].id
             ELSE IF Len(fd.people) > 0 /\ Truthy(Some(fd.people[1].id))
                  THEN fd.people[1].id
                  ELSE EmptyString

\* Keys of the nodes Map after buildNodes, in insertion order (Map.set on a
\* key already present keeps the key's position).
RECURSIVE NodeKeys(_, _)
NodeKeys(people, i) ==
    IF i = 0 THEN <<>>
    ELSE LET before == NodeKeys(people, i - 1)
         IN  IF people[i].id \in RangeOf(before) THEN before
             ELSE Append(before, people[i].id)

---------------------------------------------------------------------------
(* FamilyGraph: edges *)

Strength(type) ==
    IF type = "parent-child" THEN 10 ELSE IF type = "spouse" THEN 8 ELSE 5

\* The edge key without the sort of the two ids.
EdgeKeyUnsorted(sourceId, targetId, type) ==
    JoinPair(<<sourceId, targetId>>) \o <<45>> \o TypeName(type)

EdgeKey(sourceId, targetId, type) ==
    JoinPair(SortPair(sourceId, targetId)) \o <<45>> \o TypeName(type)

\* connections.push(other) on the node with the given id, if it exists.
PushConnection(conn, id, other) ==
    IF id \in DOMAIN conn THEN [conn EXCEPT ![id] = Append(@, other)] ELSE conn

\* The closure addEdge of buildEdges; st holds edges, edgeSet and the nodes'
\* connections.
AddEdge(st, sourceId, targetId, type) ==
    LET edgeKey == EdgeKey(sourceId, targetId, type)
    IN  IF edgeKey \in st.edgeSet THEN st
        ELSE [edges |-> Append(st.edges,
                            [id |-> edgeKey, sourceId |-> sourceId,
                             targetId |-> targetId, type |-> type,
                             strength |-> Strength(type)]),
              edgeSet |-> st.edgeSet \cup {edgeKey},
              connections |->
                  PushConnection(PushConnection(st.connections, sourceId, targetId),
                                 targetId, sourceId)]

\* The loop over refIds without the test this.nodes.has(refId).
RECURSIVE AddRefsUnchecked(_, _, _, _, _)
AddRefsUnchecked(st, personId, refIds, type, i) ==
    IF i > Len(refIds) THEN st
    ELSE AddRefsUnchecked(AddEdge(st, personId, refIds[i], type),
                          personId, refIds, type, i + 1)

\* for (const refId of refIds) if (this.nodes.has(refId)) addEdge(id, refId, type)
RECURSIVE AddRefs(_, _, _, _, _)
AddRefs(st, personId, refIds, type, i) ==
    IF i > Len(refIds) THEN st
    ELSE AddRefs(IF refIds[i] \in DOMAIN st.connections
                 THEN AddEdge(st, personId, refIds[i], type)
                 ELSE st,
                 personId, refIds, type, i + 1)

\* The loop over familyData.people of buildEdges.
RECURSIVE AddPeopleEdges(_, _, _)
AddPeopleEdges(st, people, i) ==
    IF i > Len(people) THEN st
    ELSE LET person == people[i]
             withChildren == AddRefs(st, person.id, person.childIds, "parent-child", 1)
             withSpouses == AddRefs(withChildren, person.id, person.spouseIds, "spouse", 1)
         IN  AddPeopleEdges(withSpouses, people, i + 1)

---------------------------------------------------------------------------
(* FamilyGraph: sibling inference *)

\* parentToChildren is a Map from parent id to a Set of child ids; both keep
\* insertion order. It is modelled as a sequence of entries
\* [parent, children], children a sequence without repetition.
MapIndex(map, parentId) ==
    IF \E k \in 1..Len(map) : map[k].parent = parentId
    THEN CHOOSE k \in 1..Len(map) : map[k].parent = parentId
    ELSE 0

\* parentToChildren.get(parentId).add(childId), creating the entry if needed.
MapAdd(map, parentId, childId) ==
    LET k == MapIndex(map, parentId)
    IN  IF k = 0
        THEN Append(map, [parent |-> parentId, children |-> <<childId>>])
        ELSE IF childId \in RangeOf(map[k].children) THEN map
             ELSE [map EXCEPT ![k].children = Append(@, childId)]

RECURSIVE AddParents(_, _, _, _)
AddParents(map, personId, parentIds, j) ==
    IF j > Len(parentIds) THEN map
    ELSE AddParents(MapAdd(map, parentIds[j], personId), personId, parentIds, j + 1)

RECURSIVE ParentToChildren(_, _)
ParentToChildren(people, i) ==
    IF i = 0 THEN <<>>
    ELSE AddParents(ParentToChildren(people, i - 1),
                    people[i].id, people[i].parentIds, 1)

PairKey(x, y) == JoinPair(SortPair(x, y))

\* The sibling edge built with the strength addEdge gives to a type that is
\* neither parent-child nor spouse.
AddSiblingAddEdgeStrength(st, x, y) ==
    LET pairKey == PairKey(x, y)
    IN  IF pairKey \in st.siblingPairs THEN st
        ELSE [edges |-> Append(st.edges,
                            [id |-> pairKey \o <<45>> \o TypeName("sibling"),
                             sourceId |-> x, targetId |-> y,
                             type |-> "sibling", strength |-> Strength("sibling")]),
              siblingPairs |-> st.siblingPairs \cup {pairKey},
              connections |->
                  PushConnection(PushConnection(st.connections, x, y), y, x)]

\* The body of the two nested loops over childArray; st holds edges,
\* siblingPairs and the nodes' connections.
AddSibling(st, x, y) ==
    LET pairKey == PairKey(x, y)
    IN  IF pairKey \in st.siblingPairs THEN st
        ELSE [edges |-> Append(st.edges,
                            [id |-> pairKey \o <<45>> \o TypeName("sibling"),
                             sourceId |-> x, targetId |-> y,
                             type |-> "sibling", strength |-> 6]),
              siblingPairs |-> st.siblingPairs \cup {pairKey},
              connections |->
                  PushConnection(PushConnection(st.connections, x, y), y, x)]

\* for (i..) for (j = i + 1..) over one childArray, from position (i, j) on.
RECURSIVE PairLoop(_, _, _, _)
PairLoop(st, childArray, i, j) ==
    IF i > Len(childArray) THEN st
    ELSE IF j > Len(childArray) THEN PairLoop(st, childArray, i + 1, i + 2)
    ELSE PairLoop(AddSibling(st, childArray[i], childArray[j]), childArray, i, j + 1)

\* for (const children of parentToChildren.values())
RECURSIVE ChildrenLoop(_, _, _)
ChildrenLoop(st, map, k) ==
    IF k > Len(map) THEN st
    ELSE ChildrenLoop(PairLoop(st, map[k].children, 1, 2), map, k + 1)

\* inferSiblings: edges and connections after it.
InferSiblings(fd, edgs, conn) ==
    LET parentToChildren == ParentToChildren(fd.people, Len(fd.people))
        st == ChildrenLoop([edges |-> edgs, siblingPairs |-> {},
                            connections |-> conn],
                           parentToChildren, 1)
    IN  [edges |-> st.edges, connections |-> st.connections]

\* buildEdges: edges and connections after it, from the nodes built before.
BuildEdges(fd, conn) ==
    LET st == AddPeopleEdges([edges |-> <<>>, edgeSet |-> {},
                              connections |-> conn],
                             fd.people, 1)
    IN  InferSiblings(fd, st.edges, st.connections)

---------------------------------------------------------------------------
(* FamilyGraph: generation assignment *)

\* Visit without the queue.push of the neighbour.
VisitNoEnqueue(st, neighbor, g) ==
    IF ~Truthy(neighbor) THEN st
    ELSE LET neighborId == neighbor[1]
         IN  [visited |-> st.visited \cup {neighborId},
              generation |->
                  IF neighborId \in DOMAIN st.generation
                  THEN [st.generation EXCEPT ![neighborId] = g]
                  ELSE st.generation,
              queue |-> st.queue]

\* What one edge does to the traversal state st = [visited, generation,
\* queue] while the node id with generation gen is being processed:
\* neighbor is the neighborId computed for the edge (string | null).
Visit(st, neighbor, g) ==
    IF ~Truthy(neighbor) THEN st
    ELSE LET neighborId == neighbor[1]
         IN  [visited |-> st.visited \cup {neighborId},
              generation |->
                  IF neighborId \in DOMAIN st.generation
                  THEN [st.generation EXCEPT ![neighborId] = g]
                  ELSE st.generation,
              queue |->
                  IF neighborId \in DOMAIN st.generation
                  THEN Append(st.queue, [id |-> neighborId, gen |-> g])
                  ELSE st.queue]

\* genOffset with the two directions exchanged.
GenOffsetSwapped(edge, id, vis) ==
    IF edge.sourceId = id /\ edge.targetId \notin vis THEN -1
    ELSE IF edge.targetId = id /\ edge.sourceId \notin vis THEN 1
    ELSE 0

\* genOffset of the parent-child loop for one edge.
GenOffset(edge, id, vis) ==
    IF edge.sourceId = id /\ edge.targetId \notin vis THEN 1
    ELSE IF edge.targetId = id /\ edge.sourceId \notin vis THEN -1
    ELSE 0

\* neighborId without the tests of visited.
NeighborVisitedOrNot(edge, id, vis) ==
    IF edge.sourceId = id THEN Some(edge.targetId)
    ELSE IF edge.targetId = id THEN Some(edge.sourceId)
    ELSE None

\* neighborId of either loop for one edge.
Neighbor(edge, id, vis) ==
    IF edge.sourceId = id /\ edge.targetId \notin vis THEN Some(edge.targetId)
    ELSE IF edge.targetId = id /\ edge.sourceId \notin vis THEN Some(edge.sourceId)
    ELSE None

\* The parent-child loop that forgets genOffset.
RECURSIVE ParentChildLoopNoOffset(_, _, _, _, _)
ParentChildLoopNoOffset(st, edgs, id, gen, k) ==
    IF k > Len(edgs) THEN st
    ELSE IF edgs[k].type # "parent-child"
         THEN ParentChildLoopNoOffset(st, edgs, id, gen, k + 1)
         ELSE ParentChildLoopNoOffset(
                  Visit(st, Neighbor(edgs[k], id, st.visited), gen),
                  edgs, id, gen, k + 1)

\* First loop over this.edges: parent-child edges, from edge k on.
RECURSIVE ParentChildLoop(_, _, _, _, _)
ParentChildLoop(st, edgs, id, gen, k) ==
    IF k > Len(edgs) THEN st
    ELSE IF edgs[k].type # "parent-child"
         THEN ParentChildLoop(st, edgs, id, gen, k + 1)
         ELSE ParentChildLoop(
                  Visit(st, Neighbor(edgs[k], id, st.visited),
                        gen + GenOffset(edgs[k], id, st.visited)),
                  edgs, id, gen, k + 1)

\* The spouse and sibling loop that handles spouses only.
RECURSIVE SameGenerationLoopSpousesOnly(_, _, _, _, _)
SameGenerationLoopSpousesOnly(st, edgs, id, gen, k) ==
    IF k > Len(edgs) THEN st
    ELSE IF edgs[k].type = "spouse"
         THEN SameGenerationLoopSpousesOnly(
                  Visit(st, Neighbor(edgs[k], id, st.visited), gen),
                  edgs, id, gen, k + 1)
         ELSE SameGenerationLoopSpousesOnly(st, edgs, id, gen, k + 1)

\* Second loop over this.edges: spouse and sibling edges, from edge k on.
RECURSIVE SameGenerationLoop(_, _, _, _, _)
SameGenerationLoop(st, edgs, id, gen, k) ==
    IF k > Len(edgs) THEN st
    ELSE IF edgs[k].type = "spouse" \/ edgs[k].type = "sibling"
         THEN SameGenerationLoop(
                  Visit(st, Neighbor(edgs[k], id, st.visited), gen),
                  edgs, id, gen, k + 1)
         ELSE SameGenerationLoop(st, edgs, id, gen, k + 1)

\* One iteration of while (queue.length > 0): the traversal state after it.
ProcessNode(vis, genr, q, edgs) ==
    LET id == Head(q).id
        gen == Head(q).gen
        st0 == [visited |-> vis, generation |-> genr, queue |-> Tail(q)]
    IN  IF id \notin DOMAIN genr THEN st0
        ELSE SameGenerationLoop(ParentChildLoop(st0, edgs, id, gen, 1),
                                edgs, id, gen, 1)

---------------------------------------------------------------------------
(* Datasets *)

\* Most relationship references in a dataset of simple ids.
MaxRefs == 3
\* Most childIds and spouseIds references in a dataset of hyphenated ids.
MaxKeyRefs == 2
\* Most parentIds references in a dataset of hyphenated ids.
MaxParentRefs == 4

SimpleIds == <<IdB, IdA, IdC>>
HyphenIds == <<IdAB, IdC, IdA, IdBC>>

\* The rosters made of the first n of ids, for every n.
Prefixes(ids) == {SubSeq(ids, 1, n) : n \in 0..Len(ids)}

\* The ways to deal r references to `slots` reference lists, list by list:
\* slotOf[i] is the list that receives the i-th reference.
Deals(r, slots) ==
    {slotOf \in [1..r -> 1..slots] :
        \A i \in 1..(r - 1) : slotOf[i] <= slotOf[i + 1]}

\* The reference list number s, when the references refs are dealt by slotOf.
RefList(refs, slotOf, s) ==
    LET idx == {i \in 1..Len(refs) : slotOf[i] = s}
    IN  IF idx = {} THEN <<>>
        ELSE LET first == CHOOSE i \in idx : \A j \in idx : i <= j
             IN  [j \in 1..Cardinality(idx) |-> refs[first + j - 1]]

Person(id, generationHint, status, parentIds, spouseIds, childIds) ==
    [id |-> id, generation |-> generationHint, status |-> status,
     parentIds |-> parentIds, spouseIds |-> spouseIds, childIds |-> childIds]

Metas(pool) == {[centeredPersonId |-> None]} \cup
               {[centeredPersonId |-> Some(id)] : id \in pool}

\* People with simple ids and any mix of references.
GeneralData(fd) ==
    \E roster \in Prefixes(SimpleIds), r \in 0..MaxRefs, m \in Metas({IdC}) :
        \E slotOf \in Deals(r, 3 * Len(roster)) :
            \E refs \in [1..r -> RangeOf(SimpleIds)] :
                fd = [meta |-> m,
                      people |-> [i \in 1..Len(roster) |->
                          Person(roster[i], None, "undefined",
                                 RefList(refs, slotOf, 3 * i),
                                 RefList(refs, slotOf, 3 * i - 1),
                                 RefList(refs, slotOf, 3 * i - 2))]]

\* People with hyphenated ids declaring children and spouses.
KeyData(fd) ==
    \E r \in 0..MaxKeyRefs :
        \E slotOf \in Deals(r, 2 * Len(HyphenIds)) :
            \E refs \in [1..r -> RangeOf(HyphenIds)] :
                fd = [meta |-> [centeredPersonId |-> None],
                      people |-> [i \in 1..Len(HyphenIds) |->
                          Person(HyphenIds[i], None, "undefined", <<>>,
                                 RefList(refs, slotOf, 2 * i),
                                 RefList(refs, slotOf, 2 * i - 1))]]

\* People with hyphenated ids declaring parents among "a" and "c".
ParentData(fd) ==
    \E r \in 0..MaxParentRefs :
        \E slotOf \in Deals(r, Len(HyphenIds)) :
            \E refs \in [1..r -> {IdA, IdC}] :
                fd = [meta |-> [centeredPersonId |-> None],
                      people |-> [i \in 1..Len(HyphenIds) |->
                          Person(HyphenIds[i], None, "undefined",
                                 RefList(refs, slotOf, i), <<>>, <<>>)]]

\* People carrying the generation and status hints of rich imports.
Hints == {<<None, "undefined">>, <<Some(0), "undefined">>, <<Some(0), "pending">>,
          <<Some(0), "complete">>, <<Some(1), "complete">>}

HintData(fd) ==
    \E roster \in Prefixes(SimpleIds), m \in Metas({IdA, IdBC}) :
        \E h \in [1..Len(roster) -> Hints] :
            fd = [meta |-> m,
                  people |-> [i \in 1..Len(roster) |->
                      Person(roster[i], h[i][1], h[i][2], <<>>, <<>>, <<>>)]]

\* Most references in a dataset whose graph is queried.
MaxQueryRefs == 2

\* People with simple ids and any mix of references, for the accessors.
QueryData(fd) ==
    \E roster \in Prefixes(SimpleIds), r \in 0..MaxQueryRefs, m \in Metas({IdC}) :
        \E slotOf \in Deals(r, 3 * Len(roster)) :
            \E refs \in [1..r -> RangeOf(SimpleIds)] :
                fd = [meta |-> m,
                      people |-> [i \in 1..Len(roster) |->
                          Person(roster[i], None, "undefined",
                                 RefList(refs, slotOf, 3 * i),
                                 RefList(refs, slotOf, 3 * i - 1),
                                 RefList(refs, slotOf, 3 * i - 2))]]

\* Most childIds references in a dataset that is built twice.
MaxTwiceRefs == 4

\* People with hyphenated ids declaring children among the first three.
TwiceData(fd) ==
    \E r \in 0..MaxTwiceRefs :
        \E slotOf \in Deals(r, Len(HyphenIds)) :
            \E refs \in [1..r -> RangeOf(SubSeq(HyphenIds, 1, 3))] :
                fd = [meta |-> [centeredPersonId |-> None],
                      people |-> [i \in 1..Len(HyphenIds) |->
                          Person(HyphenIds[i], None, "undefined", <<>>, <<>>,
                                 RefList(refs, slotOf, i))]]

---------------------------------------------------------------------------
(* Parser: calculateBiographyWeight *)

\* A biography text is kept run-length encoded: a sequence of runs
\* [ch, n], each standing for n >= 1 copies of the code unit ch (32 is ' ',
\* 120 is 'x'); the empty text is the empty sequence. Weights are kept in
\* ten-thousandths, rounded down (1.0 -> 10000).
Run(ch, n) == [ch |-> ch, n |-> n]

IsWhitespace(ch) == ch = 32

\* String.prototype.length
RECURSIVE StringLength(_)
StringLength(text) ==
    IF text = <<>> THEN 0 ELSE Head(text).n + StringLength(Tail(text))

RECURSIVE TrimStart(_)
TrimStart(text) ==
    IF text = <<>> THEN <<>>
    ELSE IF IsWhitespace(Head(text).ch) THEN TrimStart(Tail(text))
    ELSE text

RECURSIVE TrimEnd(_)
TrimEnd(text) ==
    IF text = <<>> THEN <<>>
    ELSE IF IsWhitespace(text[Len(text)].ch)
         THEN TrimEnd(SubSeq(text, 1, Len(text) - 1))
         ELSE text

\* String.prototype.trim
Trim(text) == TrimEnd(TrimStart(text))

\* The greatest r in lo..hi with r * r <= x.
RECURSIVE SqrtSearch(_, _, _)
SqrtSearch(x, lo, hi) ==
    IF lo = hi THEN lo
    ELSE LET mid == (lo + hi + 1) \div 2
         IN  IF mid * mid <= x THEN SqrtSearch(x, mid, hi)
             ELSE SqrtSearch(x, lo, mid - 1)

maxLength == 1000

\* Math.pow(num / maxLength, 0.5) in ten-thousandths.
PowHalf(num) ==
    LET squared == num * (100000000 \div maxLength)
    IN  SqrtSearch(squared, 0, MathMin(squared, 46340))

\* calculateBiographyWeight without the Math.min against maxLength.
CalculateBiographyWeightUnclamped(bio) ==
    IF ~Truthy(bio) THEN 0
    ELSE LET length == StringLength(Trim(bio[1]))
         IN  IF length = 0 THEN 0
             ELSE PowHalf(length)

CalculateBiographyWeight(bio) ==
    IF ~Truthy(bio) THEN 0
    ELSE LET length == StringLength(Trim(bio[1]))
         IN  IF length = 0 THEN 0
             ELSE PowHalf(MathMin(length, maxLength))

\* Most whitespace at either end of a biography.
MaxPad == 1
\* Most characters between the whitespace.
MaxBioLength == 1001

\* lead spaces, core letters, trail spaces.
Text(lead, core, trail) ==
    (IF lead > 0 THEN <<Run(32, lead)>> ELSE <<>>)
    \o (IF core > 0 THEN <<Run(120, core)>> ELSE <<>>)
    \o (IF trail > 0 THEN <<Run(32, trail)>> ELSE <<>>)

ParserIdle == biography = None /\ weight = None /\ errors = None

TreeIdle == positions = <<>> /\ root = None /\ force = None

LayoutIdle ==
    /\ nodes = <<>>
    /\ config = None
    /\ useBarnesHut = FALSE
    /\ iteration = 0
    /\ random = None
    /\ calls = 0
    /\ earlier = None

NoData == [meta |-> [centeredPersonId |-> None], people |-> <<>>]

InitWeight ==
    /\ \/ biography = None
       \/ \E lead \in 0..MaxPad, core \in 0..MaxBioLength, trail \in 0..MaxPad :
             biography = Some(Text(lead, core, trail))
    /\ weight = None
    /\ errors = None
    /\ pc = "calculateBiographyWeight"
    /\ familyData = NoData
    /\ centeredId = EmptyString
    /\ nodeOrder = <<>>
    /\ generation = <<>>
    /\ connections = <<>>
    /\ edges = <<>>
    /\ visited = {}
    /\ queue = <<>>
    /\ firstBuild = None
    /\ query = None
    /\ TreeIdle
    /\ LayoutIdle

CalculateBiographyWeightCall ==
    /\ pc = "calculateBiographyWeight"
    /\ weight' = Some(CalculateBiographyWeight(biography))
    /\ pc' = "returned"
    /\ UNCHANGED <<biography, errors, familyData, centeredId, nodeOrder,
                   generation, connections, edges, visited, queue, firstBuild,
                   query, treeVars, layoutVars>>

NextWeight == CalculateBiographyWeightCall

SpecWeight == InitWeight /\ [][NextWeight]_vars

---------------------------------------------------------------------------
(* Parser: validateFamilyData *)

\* An error message is kept as a record of its parts:
\* `Found duplicate IDs: ${ids.join(', ')}` and
\* `Person '${personId}' references non-existent ${refType}: ${refId}`.
DuplicatesError(ids) == [kind |-> "duplicates", ids |-> ids]

ReferenceError(personId, refType, refId) ==
    [kind |-> "reference", personId |-> personId, refType |-> refType,
     refId |-> refId]

\* The Set ids after the first loop has seen i people.
IdsSeen(people, i) == {people[j].id : j \in 1..i}

\* The Set duplicates after the first loop has seen i people, in insertion
\* order.
RECURSIVE DuplicateIds(_, _)
DuplicateIds(people, i) ==
    IF i = 0 THEN <<>>
    ELSE LET before == DuplicateIds(people, i - 1)
         IN  IF /\ people[i].id \in IdsSeen(people, i - 1)
                /\ people[i].id \notin RangeOf(before)
             THEN Append(before, people[i].id)
             ELSE before

\* The closure checkRefs: the errors of the first j entries of refIds.
RECURSIVE CheckRefs(_, _, _, _, _)
CheckRefs(ids, personId, refIds, refType, j) ==
    IF j = 0 THEN <<>>
    ELSE LET before == CheckRefs(ids, personId, refIds, refType, j - 1)
         IN  IF refIds[j] \notin ids
             THEN Append(before, ReferenceError(personId, refType, refIds[j]))
             ELSE before

\* The body of the second loop without the check of childIds.
PersonErrorsNoChildren(ids, person) ==
    CheckRefs(ids, person.id, person.parentIds, "parent", Len(person.parentIds))
    \o CheckRefs(ids, person.id, person.spouseIds, "spouse", Len(person.spouseIds))

\* The body of the second loop for one person.
PersonErrors(ids, person) ==
    CheckRefs(ids, person.id, person.parentIds, "parent", Len(person.parentIds))
    \o CheckRefs(ids, person.id, person.spouseIds, "spouse", Len(person.spouseIds))
    \o CheckRefs(ids, person.id, person.childIds, "child", Len(person.childIds))

RECURSIVE ReferenceErrors(_, _, _)
ReferenceErrors(ids, people, i) ==
    IF i = 0 THEN <<>>
    ELSE ReferenceErrors(ids, people, i - 1) \o PersonErrors(ids, people[i])

ValidateFamilyData(data) ==
    LET ids == IdsSeen(data.people, Len(data.people))
        duplicates == DuplicateIds(data.people, Len(data.people))
    IN  (IF Len(duplicates) > 0 THEN <<DuplicatesError(duplicates)>> ELSE <<>>)
        \o ReferenceErrors(ids, data.people, Len(data.people))

\* Most people of a dataset that is validated.
MaxPeople == 3
\* Most references of a dataset that is validated.
MaxCheckedRefs == 2

\* People named "a" or "b", possibly several times, referring to "a" or "c".
UncheckedData(fd) ==
    \E n \in 0..MaxPeople, r \in 0..MaxCheckedRefs :
        \E roster \in [1..n -> {IdA, IdB}] :
            \E slotOf \in Deals(r, 3 * n) :
                \E refs \in [1..r -> {IdA, IdC}] :
                    fd = [meta |-> [centeredPersonId |-> None],
                          people |-> [i \in 1..n |->
                              Person(roster[i], None, "undefined",
                                     RefList(refs, slotOf, 3 * i),
                                     RefList(refs, slotOf, 3 * i - 1),
                                     RefList(refs, slotOf, 3 * i - 2))]]

InitValidate ==
    /\ UncheckedData(familyData)
    /\ pc = "validateFamilyData"
    /\ errors = None
    /\ biography = None
    /\ weight = None
    /\ centeredId = EmptyString
    /\ nodeOrder = <<>>
    /\ generation = <<>>
    /\ connections = <<>>
    /\ edges = <<>>
    /\ visited = {}
    /\ queue = <<>>
    /\ firstBuild = None
    /\ query = None
    /\ TreeIdle
    /\ LayoutIdle

ValidateFamilyDataCall ==
    /\ pc = "validateFamilyData"
    /\ errors' = Some(ValidateFamilyData(familyData))
    /\ pc' = "returned"
    /\ UNCHANGED <<familyData, biography, weight, centeredId, nodeOrder,
                   generation, connections, edges, visited, queue, firstBuild,
                   query, treeVars, layoutVars>>

NextValidate == ValidateFamilyDataCall

SpecValidate == InitValidate /\ [][NextValidate]_vars

---------------------------------------------------------------------------
(* Arithmetic of the octree *)

\* The numbers of the octree are exact fractions [n, d] in lowest terms with
\* d > 0; the coordinates of the bodies are integers.
RECURSIVE Gcd(_, _)
Gcd(a, b) == IF b = 0 THEN a ELSE Gcd(b, a % b)

Abs(a) == IF a < 0 THEN 0 - a ELSE a

Frac(n, d) ==
    LET g == Gcd(Abs(n), Abs(d))
        sign == IF d < 0 THEN -1 ELSE 1
    IN  [n |-> sign * (n \div g), d |-> sign * (d \div g)]

Whole(a) == [n |-> a, d |-> 1]

Plus(a, b) ==
    LET l == (a.d \div Gcd(a.d, b.d)) * b.d
    IN  Frac(a.n * (l \div a.d) + b.n * (l \div b.d), l)

Minus(a, b) == Plus(a, [n |-> 0 - b.n, d |-> b.d])

Times(a, b) ==
    LET g1 == Gcd(Abs(a.n), b.d)
        g2 == Gcd(Abs(b.n), a.d)
    IN  Frac((a.n \div g1) * (b.n \div g2), (a.d \div g2) * (b.d \div g1))

\* a / b for b > 0
Over(a, b) == Times(a, [n |-> b.d, d |-> b.n])

\* an / ad < bn / bd for fractions that are not negative, by their continued
\* fractions.
RECURSIVE FracLess(_, _, _, _)
FracLess(an, ad, bn, bd) ==
    IF an \div ad # bn \div bd THEN an \div ad < bn \div bd
    ELSE IF bn % bd = 0 THEN FALSE
    ELSE IF an % ad = 0 THEN TRUE
    ELSE FracLess(bd, bn % bd, ad, an % ad)

\* a < b (the comparison is moved to where neither side is negative)
Less(a, b) ==
    IF a.n < 0 /\ b.n >= 0 THEN TRUE
    ELSE IF a.n >= 0 /\ b.n < 0 THEN FALSE
    ELSE IF a.n >= 0 THEN FracLess(a.n, a.d, b.n, b.d)
    ELSE FracLess(0 - b.n, b.d, 0 - a.n, a.d)

AtLeast(a, b) == ~Less(a, b)

---------------------------------------------------------------------------
(* BarnesHutTree: build *)

\* An OctreeNode is a record; children is None (null) or the array of eight
\* entries, each None (null) or Some(node). Body indices count from 0, the
\* lists of the model from 1.
CreateNode(centerX, centerY, centerZ, halfSize) ==
    [centerX |-> centerX, centerY |-> centerY, centerZ |-> centerZ,
     halfSize |-> halfSize,
     mass |-> 0,
     comX |-> Whole(0), comY |-> Whole(0), comZ |-> Whole(0),
     children |-> None,
     bodyIndex |-> -1]

\* octant, bit by bit
GetOctant(node, pos) ==
    (IF AtLeast(Whole(pos.x), node.centerX) THEN 1 ELSE 0)
    + (IF AtLeast(Whole(pos.y), node.centerY) THEN 2 ELSE 0)
    + (IF AtLeast(Whole(pos.z), node.centerZ) THEN 4 ELSE 0)

GetChildCenter(node, octant) ==
    LET offset == Over(node.halfSize, Whole(2))
        minus == Minus(Whole(0), offset)
    IN  [x |-> Plus(node.centerX, IF octant % 2 = 1 THEN offset ELSE minus),
         y |-> Plus(node.centerY, IF (octant \div 2) % 2 = 1 THEN offset ELSE minus),
         z |-> Plus(node.centerZ, IF (octant \div 4) % 2 = 1 THEN offset ELSE minus)]

\* The child of node for the octant, created when it is null.
ChildFor(node, octant) ==
    IF node.children[octant + 1] # None THEN node.children[octant + 1][1]
    ELSE LET center == GetChildCenter(node, octant)
         IN  CreateNode(center.x, center.y, center.z,
                        Over(node.halfSize, Whole(2)))

\* The depth of recursion at which the engine gives up with a RangeError
\* (Maximum call stack size exceeded).
MaxStack == 8

\* How insert ends, and the node as it leaves it: it returns, or the
\* RangeError of a call passes through it.
Returned(node) == [thrown |-> FALSE, node |-> node]

Thrown(node) == [thrown |-> TRUE, node |-> node]

\* (com * mass + p) / newMass
RunningAverage(com, mass, p, newMass) ==
    Over(Plus(Times(com, Whole(mass)), Whole(p)), Whole(newMass))

RECURSIVE Insert(_, _, _, _, _)

\* The end of insert: the new body goes into the child of its octant.
InsertIntoChild(node, bodyIndex, pos, allPositions, depth) ==
    LET octant == GetOctant(node, pos)
        done == Insert(ChildFor(node, octant), bodyIndex, pos, allPositions,
                       depth + 1)
        grown == [node EXCEPT !.children[octant + 1] = Some(done.node)]
    IN  IF done.thrown THEN Thrown(grown) ELSE Returned(grown)

\* The subdivision of a leaf that forgets the body it held.
SubdivideLosingBody(node, allPositions, depth) ==
    Returned([node EXCEPT !.children = [o \in 1..8 |-> None],
                          !.bodyIndex = -1])

\* The subdivision of a leaf that leaves the body index on the region.
SubdivideKeepingBody(node, allPositions, depth) ==
    LET existingPos == allPositions[node.bodyIndex + 1]
        existingOctant == GetOctant(node, existingPos)
        split == [node EXCEPT !.children = [o \in 1..8 |-> None]]
        done == Insert(ChildFor(split, existingOctant), node.bodyIndex,
                       existingPos, allPositions, depth + 1)
        grown == [split EXCEPT !.children[existingOctant + 1] = Some(done.node)]
    IN  IF done.thrown THEN Thrown(grown) ELSE Returned(grown)

\* The subdivision of a leaf: the body it held is inserted into a child.
Subdivide(node, allPositions, depth) ==
    LET existingPos == allPositions[node.bodyIndex + 1]
        existingOctant == GetOctant(node, existingPos)
        split == [node EXCEPT !.children = [o \in 1..8 |-> None]]
        done == Insert(ChildFor(split, existingOctant), node.bodyIndex,
                       existingPos, allPositions, depth + 1)
        grown == [split EXCEPT !.children[existingOctant + 1] = Some(done.node)]
    IN  IF done.thrown THEN Thrown(grown)
        ELSE Returned([grown EXCEPT !.bodyIndex = -1])

\* insert, called at the given depth of recursion
Insert(node, bodyIndex, pos, allPositions, depth) ==
    IF depth > MaxStack THEN Thrown(node)
    ELSE LET newMass == node.mass + 1
             heavier == [node EXCEPT
                            !.comX = RunningAverage(@, node.mass, pos.x, newMass),
                            !.comY = RunningAverage(@, node.mass, pos.y, newMass),
                            !.comZ = RunningAverage(@, node.mass, pos.z, newMass),
                            !.mass = newMass]
         IN  IF heavier.children = None /\ heavier.bodyIndex = -1
             THEN Returned([heavier EXCEPT !.bodyIndex = bodyIndex])
             ELSE IF heavier.children = None
             THEN LET split == Subdivide(heavier, allPositions, depth)
                  IN  IF split.thrown THEN split
                      ELSE InsertIntoChild(split.node, bodyIndex, pos,
                                           allPositions, depth)
             ELSE InsertIntoChild(heavier, bodyIndex, pos, allPositions, depth)

MinOf(S) == CHOOSE a \in S : \A b \in S : a <= b

MaxOf(S) == CHOOSE a \in S : \A b \in S : b <= a

padding == 10

\* The root that build creates for a list of positions that is not empty.
RootFor(pos) ==
    LET xs == {pos[i].x : i \in 1..Len(pos)}
        ys == {pos[i].y : i \in 1..Len(pos)}
        zs == {pos[i].z : i \in 1..Len(pos)}
        sizeX == MaxOf(xs) - MinOf(xs) + padding * 2
        sizeY == MaxOf(ys) - MinOf(ys) + padding * 2
        sizeZ == MaxOf(zs) - MinOf(zs) + padding * 2
        halfSize == Frac(MathMax(sizeX, MathMax(sizeY, sizeZ)), 2)
    IN  CreateNode(Frac(MinOf(xs) + MaxOf(xs), 2), Frac(MinOf(ys) + MaxOf(ys), 2),
                   Frac(MinOf(zs) + MaxOf(zs), 2), halfSize)

\* The loop of build over the positions number lo to hi, in their order (the
\* range is halved to keep the evaluation shallow).
RECURSIVE InsertRange(_, _, _, _)
InsertRange(before, pos, lo, hi) ==
    IF hi < lo \/ before.thrown THEN before
    ELSE IF lo = hi THEN Insert(before.node, lo - 1, pos[lo], pos, 1)
    ELSE LET mid == (lo + hi) \div 2
             half == InsertRange(before, pos, lo, mid)
         IN  InsertRange(half, pos, mid + 1, hi)

\* The loop of build over the first i positions.
InsertAll(pos, i) == InsertRange(Returned(RootFor(pos)), pos, 1, i)

\* build: how it ends, and the root it leaves.
Build(pos) ==
    IF Len(pos) = 0 THEN [thrown |-> FALSE, root |-> None]
    ELSE LET done == InsertAll(pos, Len(pos))
         IN  [thrown |-> done.thrown, root |-> Some(done.node)]

---------------------------------------------------------------------------
(* BarnesHutTree: calculateForce *)

\* new BarnesHutTree(0.7)
theta == Frac(7, 10)

\* dx * dx + dy * dy + dz * dz + 0.1
DistSq(node, pos) ==
    LET dx == Minus(node.comX, Whole(pos.x))
        dy == Minus(node.comY, Whole(pos.y))
        dz == Minus(node.comZ, Whole(pos.z))
    IN  Plus(Plus(Plus(Times(dx, dx), Times(dy, dy)), Times(dz, dz)), Frac(1, 10))

\* ratio < this.theta, where ratio = (node.halfSize * 2) / Math.sqrt(distSq):
\* both sides are positive, so their squares are compared instead.
RatioBelowTheta(node, distSq) ==
    LET width == Times(node.halfSize, Whole(2))
        widthSq == Times(width, width)
        thetaSq == Times(theta, theta)
        g == Gcd(widthSq.d, distSq.d)
    IN  FracLess(widthSq.n * (distSq.d \div g), distSq.n,
                 thetaSq.n * (widthSq.d \div g), thetaSq.d)

RECURSIVE CalculateForceRecursive(_, _, _)

\* The loop over node.children from the entry number o on.
RECURSIVE ChildrenForces(_, _, _, _)
ChildrenForces(node, bodyIndex, pos, o) ==
    IF o > 8 THEN <<>>
    ELSE (IF node.children[o] # None
          THEN CalculateForceRecursive(node.children[o][1], bodyIndex, pos)
          ELSE <<>>)
         \o ChildrenForces(node, bodyIndex, pos, o + 1)

\* calculateForceRecursive: the regions whose center of mass is used for a
\* term of the force, in the order in which the terms are subtracted. Each
\* term is (d / dist) * repulsionForce * mass / distSq along the three axes.
CalculateForceRecursive(node, bodyIndex, pos) ==
    IF node.mass = 0 THEN <<>>
    ELSE IF node.bodyIndex = bodyIndex THEN <<>>
    ELSE IF node.children = None \/ RatioBelowTheta(node, DistSq(node, pos))
    THEN <<node>>
    ELSE ChildrenForces(node, bodyIndex, pos, 1)

\* calculateForce skipping no leaf.
CalculateForceWithSelf(bodyIndex, pos) ==
    IF root = None THEN <<>>
    ELSE CalculateForceRecursive(root[1], -2, pos)

\* calculateForce: when no region is used the force is the zero vector.
CalculateForce(bodyIndex, pos) ==
    IF root = None THEN <<>>
    ELSE CalculateForceRecursive(root[1], bodyIndex, pos)

---------------------------------------------------------------------------
(* BarnesHutTree as a state machine *)

Vec3(x, y, z) == [x |-> x, y |-> y, z |-> z]

\* Most bodies of a list of positions on the grid.
MaxBodies == 3

\* Positions far from and close to each other.
GridPoints == {Vec3(x, x, z) : x \in {0, 64}, z \in {0, 1, 64}}

\* The corners of a small cube far from the origin.
ClusterPoints == {Vec3(x, y, z) : x \in {500, 512}, y \in {500, 512}, z \in {500, 512}}

\* The elements of a set of positions as a list, the smallest first.
RECURSIVE Listed(_)
Listed(S) ==
    IF S = {} THEN <<>>
    ELSE LET first == CHOOSE p \in S : \A q \in S :
                          \/ p.x < q.x
                          \/ p.x = q.x /\ p.y < q.y
                          \/ p.x = q.x /\ p.y = q.y /\ p.z <= q.z
         IN  <<first>> \o Listed(S \ {first})

\* Any bodies on the grid, coincident ones included.
GridPositions(pos) ==
    \E n \in 0..MaxBodies : pos \in [1..n -> GridPoints]

\* One body at the origin and seven in a cluster far from it.
ClusterPositions(pos) ==
    \E absent \in ClusterPoints :
        pos = <<Vec3(0, 0, 0)>> \o Listed(ClusterPoints \ {absent})

InitTree ==
    /\ \/ GridPositions(positions)
       \/ ClusterPositions(positions)
    /\ root = None
    /\ force = None
    /\ pc = "build"
    /\ familyData = NoData
    /\ centeredId = EmptyString
    /\ nodeOrder = <<>>
    /\ generation = <<>>
    /\ connections = <<>>
    /\ edges = <<>>
    /\ visited = {}
    /\ queue = <<>>
    /\ firstBuild = None
    /\ query = None
    /\ ParserIdle
    /\ LayoutIdle

\* this.barnesHut.build(positions)
BuildCall ==
    /\ pc = "build"
    /\ LET done == Build(positions)
       IN  /\ root' = done.root
           /\ pc' = IF done.thrown THEN "RangeError" ELSE "built"
    /\ UNCHANGED <<positions, force, familyData, centeredId, nodeOrder,
                   generation, connections, edges, visited, queue, firstBuild,
                   query, parserVars, layoutVars>>

\* this.barnesHut.calculateForce(i, nodes[i].position, repulsionForce)
CalculateForceCall ==
    /\ pc = "built"
    /\ \E bodyIndex \in 0..MathMax(Len(positions) - 1, 0) :
          LET pos == IF bodyIndex < Len(positions) THEN positions[bodyIndex + 1]
                     ELSE Vec3(0, 0, 0)
          IN  force' = Some([bodyIndex |-> bodyIndex, pos |-> pos,
                             regions |-> CalculateForce(bodyIndex, pos)])
    /\ UNCHANGED <<positions, root, graphVars, firstBuild, query, parserVars,
                   layoutVars>>

NextTree ==
    \/ BuildCall
    \/ CalculateForceCall

SpecTree == InitTree /\ [][NextTree]_vars

---------------------------------------------------------------------------
(* ForceDirectedLayout: numbers *)

\* The numbers of the layout are kept on grids, and every stored result is
\* cut to its grid toward zero: positions in whole units, velocities and
\* forces in thousandths, distances in tenths, cosines in ten-thousandths.

\* a / b cut toward zero, for b > 0
Quot(a, b) == IF a >= 0 THEN a \div b ELSE 0 - ((0 - a) \div b)

\* Math.sqrt(x) cut to a whole number, for x >= 0
Sqrt(x) == SqrtSearch(x, 0, MathMin(x, 46340))

\* Math.cos(2 * Math.PI * p / q) in ten-thousandths, for 0 <= p < q: the
\* angle is folded into the first quarter turn and the cosine summed from its
\* series 1 - x^2/2 (1 - x^2/12 (1 - x^2/30 (1 - x^2/56))).
CosTurn(p, q) ==
    LET folded == IF 2 * p > q THEN q - p ELSE p
        flipped == 4 * folded > q
        part == IF flipped THEN q - 2 * folded ELSE 2 * folded
        x == Quot(31416 * part, q)
        xx == Quot(x * x, 10000)
        a == 10000 - Quot(xx, 56)
        b == 10000 - Quot(Quot(xx, 30) * a, 10000)
        c == 10000 - Quot(Quot(xx, 12) * b, 10000)
        d == 10000 - Quot(Quot(xx, 2) * c, 10000)
    IN  IF flipped THEN 0 - d ELSE d

\* Math.sin(2 * Math.PI * p / q) in ten-thousandths: the cosine a quarter
\* turn earlier.
SinTurn(p, q) == CosTurn((4 * p + 3 * q) % (4 * q), 4 * q)

\* Math.random(): the generator is a seed and the number of values drawn
\* from it so far; its values are hundredths in 0..99.
MathRandom(rnd) == (rnd.seed + 37 * rnd.drawn) % 100

Drawn(rnd, n) == [rnd EXCEPT !.drawn = @ + n]

---------------------------------------------------------------------------
(* ForceDirectedLayout: configuration and nodes *)

BARNES_HUT_THRESHOLD == 100

\* DEFAULT_CONFIG.layout
DEFAULT_CONFIG ==
    [centerForce |-> Frac(5, 100),
     repulsionForce |-> 500,
     attractionForce |-> Frac(1, 10),
     generationSpacing |-> 50,
     damping |-> Frac(85, 100),
     iterations |-> 300]

\* A configuration of weak repulsion and narrow layers.
CompactConfig ==
    [DEFAULT_CONFIG EXCEPT !.repulsionForce = 1, !.generationSpacing = 10,
                           !.iterations = 2]

\* A GraphNode as FamilyGraph.buildNodes creates it; biographyWeight in
\* ten-thousandths.
GraphNode(id, generationOf, biographyWeight, conn) ==
    [id |-> id,
     position |-> Vec3(0, 0, 0),
     velocity |-> Vec3(0, 0, 0),
     generation |-> generationOf,
     biographyWeight |-> biographyWeight,
     connections |-> conn]

---------------------------------------------------------------------------
(* ForceDirectedLayout: initializePositions *)

\* The position of the node number i of the len nodes of generation gen,
\* with the two random values r1 and r2 drawn for it.
RingPosition(cfg, gen, i, len, r1, r2) ==
    LET radius10 == Abs(gen) * cfg.generationSpacing * 10 + (r1 - 50)
        y100 == gen * cfg.generationSpacing * 50 + (r2 - 50) * 20
    IN  Vec3(Quot(CosTurn(i, len) * radius10, 100000),
             Quot(y100, 100),
             Quot(SinTurn(i, len) * radius10, 100000))

\* An initializePositions that moves every node from where it is to the ring.
InitializePositionsFromCurrent(nds, centered, cfg, rnd) ==
    LET idx == 1..Len(nds)
        firstOf == [k \in idx |->
                       CHOOSE j \in idx :
                           /\ nds[j].generation = nds[k].generation
                           /\ \A h \in 1..(j - 1) :
                                 nds[h].generation # nds[k].generation]
        before == [k \in idx |-> Cardinality({j \in idx : firstOf[j] < firstOf[k]})]
        inGroup == [k \in idx |-> Cardinality({j \in 1..(k - 1) : firstOf[j] = firstOf[k]})]
        len == [k \in idx |-> Cardinality({j \in idx : firstOf[j] = firstOf[k]})]
        draw == [k \in idx |-> Drawn(rnd, 2 * (before[k] + inGroup[k]))]
        placed == [k \in idx |->
                      [nds[k] EXCEPT
                          !.position =
                              LET ring == RingPosition(cfg, nds[k].generation,
                                                       inGroup[k], len[k],
                                                       MathRandom(draw[k]),
                                                       MathRandom(Drawn(draw[k], 1)))
                              IN  Vec3(nds[k].position.x + ring.x,
                                       nds[k].position.y + ring.y,
                                       nds[k].position.z + ring.z),
                          !.velocity = Vec3(0, 0, 0)]]
        found == {k \in idx : nds[k].id = centered}
    IN  [nodes |-> [k \in idx |->
                       IF found # {} /\ k = MinOf(found)
                       THEN [placed[k] EXCEPT !.position = Vec3(0, 0, 0)]
                       ELSE placed[k]],
         random |-> Drawn(rnd, 2 * Len(nds))]

\* initializePositions: genGroups keeps the generations in the order of
\* their first node; the nodes of a generation are placed one after the other,
\* each drawing two random values.
InitializePositions(nds, centered, cfg, rnd) ==
    LET idx == 1..Len(nds)
        firstOf == [k \in idx |->
                       CHOOSE j \in idx :
                           /\ nds[j].generation = nds[k].generation
                           /\ \A h \in 1..(j - 1) :
                                 nds[h].generation # nds[k].generation]
        before == [k \in idx |-> Cardinality({j \in idx : firstOf[j] < firstOf[k]})]
        inGroup == [k \in idx |-> Cardinality({j \in 1..(k - 1) : firstOf[j] = firstOf[k]})]
        len == [k \in idx |-> Cardinality({j \in idx : firstOf[j] = firstOf[k]})]
        draw == [k \in idx |-> Drawn(rnd, 2 * (before[k] + inGroup[k]))]
        placed == [k \in idx |->
                      [nds[k] EXCEPT
                          !.position = RingPosition(cfg, nds[k].generation,
                                                    inGroup[k], len[k],
                                                    MathRandom(draw[k]),
                                                    MathRandom(Drawn(draw[k], 1))),
                          !.velocity = Vec3(0, 0, 0)]]
        found == {k \in idx : nds[k].id = centered}
    IN  [nodes |-> [k \in idx |->
                       IF found # {} /\ k = MinOf(found)
                       THEN [placed[k] EXCEPT !.position = Vec3(0, 0, 0)]
                       ELSE placed[k]],
         random |-> Drawn(rnd, 2 * Len(nds))]

---------------------------------------------------------------------------
(* ForceDirectedLayout: simulationStep *)

\* A reset that leaves the velocities as they are.
ResetForcesKept(nds) ==
    [k \in 1..Len(nds) |-> nds[k]]

\* node.velocity = { x: 0, y: 0, z: 0 } for every node
ResetForces(nds) ==
    [k \in 1..Len(nds) |-> [nds[k] EXCEPT !.velocity = Vec3(0, 0, 0)]]

\* (d / dist) * force in thousandths, for d in whole units, dist in tenths
\* and force in thousandths
Along(d, dist10, force1000) ==
    Quot(Quot(d * 10000, dist10) * force1000, 1000)

\* fx, fy, fz of applyRepulsionDirect for the nodes at the positions a and b
PairRepulsion(a, b, cfg) ==
    LET dx == b.x - a.x
        dy == b.y - a.y
        dz == b.z - a.z
        distSq10 == 10 * (dx * dx + dy * dy + dz * dz) + 1
        dist10 == Sqrt(distSq10 * 10)
        force1000 == Quot(cfg.repulsionForce * 10000, distSq10)
    IN  Vec3(Along(dx, dist10, force1000), Along(dy, dist10, force1000),
             Along(dz, dist10, force1000))

VecPlus(v, w) == Vec3(v.x + w.x, v.y + w.y, v.z + w.z)

VecMinus(v, w) == Vec3(v.x - w.x, v.y - w.y, v.z - w.z)

\* What the pairs (a, j) with j > a, and the pairs (j, a) with j < a, add to
\* the velocity of node a, for j from lo to hi (the range is halved to keep
\* the evaluation shallow).
RECURSIVE RepulsionOn(_, _, _, _, _)
RepulsionOn(nds, a, cfg, lo, hi) ==
    IF hi < lo THEN Vec3(0, 0, 0)
    ELSE IF lo = hi
    THEN IF lo = a THEN Vec3(0, 0, 0)
         ELSE IF lo > a
         THEN VecMinus(Vec3(0, 0, 0),
                       PairRepulsion(nds[a].position, nds[lo].position, cfg))
         ELSE PairRepulsion(nds[lo].position, nds[a].position, cfg)
    ELSE LET mid == (lo + hi) \div 2
         IN  VecPlus(RepulsionOn(nds, a, cfg, lo, mid),
                     RepulsionOn(nds, a, cfg, mid + 1, hi))

\* applyRepulsionDirect: every pair pushes its two nodes apart.
ApplyRepulsionDirect(nds, cfg) ==
    [k \in 1..Len(nds) |->
        LET f == RepulsionOn(nds, k, cfg, 1, Len(nds))
        IN  [nds[k] EXCEPT !.velocity = Vec3(@.x + f.x, @.y + f.y, @.z + f.z)]]

\* nodes.map(n => n.position)
NodePositions(nds) == [k \in 1..Len(nds) |-> nds[k].position]

\* A fraction that is not negative, in tenths.
Tenths(a) == (a.n \div a.d) * 10 + ((a.n % a.d) * 10) \div a.d

\* The term of calculateForceRecursive for one region whose center of mass is
\* used: (d / dist) * f, where f = repulsionForce * mass / distSq.
RegionRepulsion(node, pos, cfg) ==
    LET dx == Minus(node.comX, Whole(pos.x))
        dy == Minus(node.comY, Whole(pos.y))
        dz == Minus(node.comZ, Whole(pos.z))
        distSq10 == Tenths(DistSq(node, pos))
        dist10 == Sqrt(distSq10 * 10)
        f1000 == Quot(cfg.repulsionForce * node.mass * 10000, distSq10)
    IN  Vec3(Quot(Quot(dx.n * 10000, dx.d * dist10) * f1000, 1000),
             Quot(Quot(dy.n * 10000, dy.d * dist10) * f1000, 1000),
             Quot(Quot(dz.n * 10000, dz.d * dist10) * f1000, 1000))

\* The force that calculateForce returns: each region used subtracts its
\* term.
RECURSIVE TreeForce(_, _, _, _, _)
TreeForce(regions, pos, cfg, lo, hi) ==
    IF hi < lo THEN Vec3(0, 0, 0)
    ELSE IF lo = hi
    THEN VecMinus(Vec3(0, 0, 0), RegionRepulsion(regions[lo], pos, cfg))
    ELSE LET mid == (lo + hi) \div 2
         IN  VecPlus(TreeForce(regions, pos, cfg, lo, mid),
                     TreeForce(regions, pos, cfg, mid + 1, hi))

\* The loop of applyRepulsionBarnesHut over the nodes, after build.
ApplyTreeForces(nds, cfg) ==
    [k \in 1..Len(nds) |->
        LET regions == CalculateForce(k - 1, nds[k].position)
            f == TreeForce(regions, nds[k].position, cfg, 1, Len(regions))
        IN  [nds[k] EXCEPT !.velocity = Vec3(@.x + f.x, @.y + f.y, @.z + f.z)]]

\* nodeMap.get(id): the index of the last node with the id, 0 for undefined.
NodeMapGet(nds, id) ==
    LET found == {k \in 1..Len(nds) : nds[k].id = id}
    IN  IF found = {} THEN 0 ELSE MaxOf(found)

\* idealDist in tenths
IdealDist(edge, cfg) ==
    IF edge.type = "parent-child" THEN cfg.generationSpacing * 10
    ELSE IF edge.type = "spouse" THEN cfg.generationSpacing * 3
    ELSE cfg.generationSpacing * 5

\* A loop body that lets an edge with a missing endpoint pull or push its
\* other endpoint along the y axis.
AttractAlongUnchecked(nds, edge, cfg) ==
    LET source == NodeMapGet(nds, edge.sourceId)
        target == NodeMapGet(nds, edge.targetId)
        force1000 == Quot(IdealDist(edge, cfg) * edge.strength * 10
                              * cfg.attractionForce.n,
                          cfg.attractionForce.d)
    IN  IF source = 0 /\ target = 0 THEN nds
        ELSE IF source = 0
        THEN [nds EXCEPT ![target].velocity.y = @ - force1000]
        ELSE IF target = 0
        THEN [nds EXCEPT ![source].velocity.y = @ + force1000]
        ELSE LET dx == nds[target].position.x - nds[source].position.x
                 dy == nds[target].position.y - nds[source].position.y
                 dz == nds[target].position.z - nds[source].position.z
                 dist10 == Sqrt((dx * dx + dy * dy + dz * dz) * 100) + 1
                 pull1000 == Quot((dist10 - IdealDist(edge, cfg)) * edge.strength
                                      * 10 * cfg.attractionForce.n,
                                  cfg.attractionForce.d)
                 fx == Along(dx, dist10, pull1000)
                 fy == Along(dy, dist10, pull1000)
                 fz == Along(dz, dist10, pull1000)
                 pulled == [nds EXCEPT ![source].velocity =
                               Vec3(@.x + fx, @.y + fy, @.z + fz)]
             IN  [pulled EXCEPT ![target].velocity =
                     Vec3(@.x - fx, @.y - fy, @.z - fz)]

\* The body of the loop of applyAttraction for one edge.
AttractAlong(nds, edge, cfg) ==
    LET source == NodeMapGet(nds, edge.sourceId)
        target == NodeMapGet(nds, edge.targetId)
    IN  IF source = 0 \/ target = 0 THEN nds
        ELSE LET dx == nds[target].position.x - nds[source].position.x
                 dy == nds[target].position.y - nds[source].position.y
                 dz == nds[target].position.z - nds[source].position.z
                 dist10 == Sqrt((dx * dx + dy * dy + dz * dz) * 100) + 1
                 force1000 == Quot((dist10 - IdealDist(edge, cfg)) * edge.strength
                                       * 10 * cfg.attractionForce.n,
                                   cfg.attractionForce.d)
                 fx == Along(dx, dist10, force1000)
                 fy == Along(dy, dist10, force1000)
                 fz == Along(dz, dist10, force1000)
                 pulled == [nds EXCEPT ![source].velocity =
                               Vec3(@.x + fx, @.y + fy, @.z + fz)]
             IN  [pulled EXCEPT ![target].velocity =
                     Vec3(@.x - fx, @.y - fy, @.z - fz)]

\* applyAttraction: the loop over the edges from edge k on.
RECURSIVE ApplyAttraction(_, _, _, _)
ApplyAttraction(nds, edgs, cfg, k) ==
    IF k > Len(edgs) THEN nds
    ELSE ApplyAttraction(AttractAlong(nds, edgs[k], cfg), edgs, cfg, k + 1)

\* applyCenterForce: x and z only
ApplyCenterForce(nds, cfg) ==
    [k \in 1..Len(nds) |->
        [nds[k] EXCEPT
            !.velocity.x = @ - Quot(nds[k].position.x * 1000 * cfg.centerForce.n,
                                    cfg.centerForce.d),
            !.velocity.z = @ - Quot(nds[k].position.z * 1000 * cfg.centerForce.n,
                                    cfg.centerForce.d)]]

\* applyGenerationForce: targetY = generation * generationSpacing * 0.8
ApplyGenerationForce(nds, cfg) ==
    [k \in 1..Len(nds) |->
        LET targetY1000 == nds[k].generation * cfg.generationSpacing * 800
        IN  [nds[k] EXCEPT
                !.velocity.y = @ + Quot(targetY1000 - nds[k].position.y * 1000, 10)]]

\* A cooling that ends at 0.2 in the last step: progress = i / (iterations - 1)
TemperatureToEnd(i, iterations) ==
    IF iterations = 1 THEN Whole(1)
    ELSE Minus(Whole(1), Times(Frac(i, iterations - 1), Frac(8, 10)))

\* temperature = 1 - progress * 0.8, where progress = i / iterations
Temperature(i, iterations) ==
    Minus(Whole(1), Times(Frac(i, iterations), Frac(8, 10)))

\* node.position += node.velocity * temperature
UpdatePositions(nds, temperature) ==
    [k \in 1..Len(nds) |->
        [nds[k] EXCEPT
            !.position.x = @ + Quot(nds[k].velocity.x * temperature.n,
                                    temperature.d * 1000),
            !.position.y = @ + Quot(nds[k].velocity.y * temperature.n,
                                    temperature.d * 1000),
            !.position.z = @ + Quot(nds[k].velocity.z * temperature.n,
                                    temperature.d * 1000)]]

---------------------------------------------------------------------------
(* ForceDirectedLayout: centerLayout *)

\* The sums sumX, sumY, sumZ over the nodes number lo to hi (the range is
\* halved to keep the evaluation shallow).
RECURSIVE SumPositions(_, _, _)
SumPositions(nds, lo, hi) ==
    IF hi < lo THEN Vec3(0, 0, 0)
    ELSE IF lo = hi THEN nds[lo].position
    ELSE LET mid == (lo + hi) \div 2
         IN  VecPlus(SumPositions(nds, lo, mid), SumPositions(nds, mid + 1, hi))

\* A centering of x and z only, as applyCenterForce pulls.
CenterLayoutFlat(nds) ==
    IF Len(nds) = 0 THEN nds
    ELSE LET sum == SumPositions(nds, 1, Len(nds))
             cx == Quot(sum.x, Len(nds))
             cz == Quot(sum.z, Len(nds))
         IN  [k \in 1..Len(nds) |->
                 [nds[k] EXCEPT !.position = Vec3(@.x - cx, @.y, @.z - cz)]]

\* centerLayout: for an empty list the three quotients are NaN and no node
\* is there to take them.
CenterLayout(nds) ==
    IF Len(nds) = 0 THEN nds
    ELSE LET sum == SumPositions(nds, 1, Len(nds))
             cx == Quot(sum.x, Len(nds))
             cy == Quot(sum.y, Len(nds))
             cz == Quot(sum.z, Len(nds))
         IN  [k \in 1..Len(nds) |->
                 [nds[k] EXCEPT !.position = Vec3(@.x - cx, @.y - cy, @.z - cz)]]

---------------------------------------------------------------------------
(* ForceDirectedLayout: the arguments of calculate *)

\* A GraphEdge as FamilyGraph.buildEdges creates it.
GraphEdge(sourceId, targetId, type) ==
    [id |-> EdgeKey(sourceId, targetId, type), sourceId |-> sourceId,
     targetId |-> targetId, type |-> type, strength |-> Strength(type)]

\* Most nodes of a short node list.
MaxNodes == 2

\* Most simulation steps of a call on a short node list.
MaxIterations == 2

\* Most calls of calculate in a run.
MaxCalls == 2

\* The id of the node number k: "n000", "n001", ...
NodeId(k) ==
    <<110, 48 + ((k \div 100) % 10), 48 + ((k \div 10) % 10), 48 + (k % 10)>>

\* The ids of all nodes but the one number k.
OtherIds(n, k) == [j \in 1..(n - 1) |-> NodeId(IF j < k THEN j - 1 ELSE j)]

\* A short node list: the generations go from g0 in steps of d.
ShortNodes(nds) ==
    \E n \in 0..MaxNodes : \E g0 \in {-1, 0} : \E d \in {0, 1} :
        nds = [k \in 1..n |->
                  GraphNode(NodeId(k - 1), g0 + (k - 1) * d, 1000 * k,
                            OtherIds(n, k))]

\* A long node list: the first node alone in generation 0, the others dealt
\* to the generations -3..-1 and 1..3.
LongNodes(n) ==
    [k \in 1..n |->
        GraphNode(NodeId(k - 1),
                  IF k = 1 THEN 0
                  ELSE (1 + (k % 3)) * (IF (k \div 3) % 2 = 0 THEN 1 ELSE -1),
                  1000, <<NodeId(0)>>)]

\* Edge lists: none, one edge, and edges of every kind of which the last
\* has an endpoint that short node lists do not hold.
EdgeLists ==
    {<<>>,
     <<GraphEdge(NodeId(0), NodeId(1), "parent-child")>>,
     <<GraphEdge(NodeId(1), NodeId(0), "spouse"),
       GraphEdge(NodeId(0), NodeId(1), "sibling"),
       GraphEdge(NodeId(0), NodeId(9), "parent-child")>>}

\* The seeds of Math.random of the runs.
Seeds == {0, 7}

---------------------------------------------------------------------------
(* ForceDirectedLayout as a state machine *)

\* What no step of the layout touches.
layoutRest ==
    <<familyData, nodeOrder, generation, connections, visited, queue,
      firstBuild, query, parserVars, force>>

\* calculate is about to be called on a new ForceDirectedLayout(cfg).
InitLayout ==
    /\ \/ /\ ShortNodes(nodes)
          /\ edges \in EdgeLists
          /\ centeredId \in {NodeId(0), NodeId(9)}
          /\ \E seed \in Seeds : random = Some([seed |-> seed, drawn |-> 0])
          /\ \E iterations \in 0..MaxIterations :
                config = Some([DEFAULT_CONFIG EXCEPT !.iterations = iterations])
       \/ /\ \E n \in {BARNES_HUT_THRESHOLD, BARNES_HUT_THRESHOLD + 1} :
                nodes = LongNodes(n)
          /\ edges = <<GraphEdge(NodeId(0), NodeId(1), "parent-child")>>
          /\ centeredId = NodeId(0)
          /\ random = Some([seed |-> 0, drawn |-> 0])
          /\ config = Some(CompactConfig)
    /\ useBarnesHut = FALSE
    /\ iteration = 0
    /\ calls = 0
    /\ earlier = None
    /\ positions = <<>>
    /\ root = None
    /\ force = None
    /\ pc = "calculate"
    /\ familyData = NoData
    /\ nodeOrder = <<>>
    /\ generation = <<>>
    /\ connections = <<>>
    /\ visited = {}
    /\ queue = <<>>
    /\ firstBuild = None
    /\ query = None
    /\ ParserIdle

\* The head of the loop of calculate: i < this.config.iterations
LoopOrCenter(i) ==
    IF i < config[1].iterations THEN "resetForces" ELSE "centerLayout"

\* A calculate that keeps an earlier choice of the octree.
CalculateCallKeepingChoice ==
    /\ pc = "calculate"
    /\ useBarnesHut' = (useBarnesHut \/ Len(nodes) > BARNES_HUT_THRESHOLD)
    /\ calls' = calls + 1
    /\ pc' = "initializePositions"
    /\ UNCHANGED <<layoutRest, nodes, edges, centeredId, config, iteration,
                   random, earlier, positions, root>>

\* calculate, up to the call of initializePositions
CalculateCall ==
    /\ pc = "calculate"
    /\ useBarnesHut' = (Len(nodes) > BARNES_HUT_THRESHOLD)
    /\ calls' = calls + 1
    /\ pc' = "initializePositions"
    /\ UNCHANGED <<layoutRest, nodes, edges, centeredId, config, iteration,
                   random, earlier, positions, root>>

\* this.initializePositions(nodes, centeredId), and let i = 0
InitializePositionsCall ==
    /\ pc = "initializePositions"
    /\ \E done \in {InitializePositions(nodes, centeredId, config[1],
                                        random[1])} :
          /\ nodes' = done.nodes
          /\ random' = Some(done.random)
    /\ iteration' = 0
    /\ pc' = LoopOrCenter(0)
    /\ UNCHANGED <<layoutRest, edges, centeredId, config, useBarnesHut, calls,
                   earlier, positions, root>>

\* simulationStep: the loop that resets the velocities
ResetForcesLoop ==
    /\ pc = "resetForces"
    /\ nodes' = ResetForces(nodes)
    /\ pc' = "repulsion"
    /\ UNCHANGED <<layoutRest, edges, centeredId, config, useBarnesHut,
                   iteration, random, calls, earlier, positions, root>>

\* this.applyRepulsionDirect(nodes)
ApplyRepulsionDirectCall ==
    /\ pc = "repulsion"
    /\ ~useBarnesHut
    /\ nodes' = ApplyRepulsionDirect(nodes, config[1])
    /\ pc' = "attraction"
    /\ UNCHANGED <<layoutRest, edges, centeredId, config, useBarnesHut,
                   iteration, random, calls, earlier, positions, root>>

\* A build that inserts the bodies into the root that an earlier build left.
BarnesHutBuildInto ==
    /\ pc = "repulsion"
    /\ useBarnesHut
    /\ positions' = NodePositions(nodes)
    /\ \E grown \in {IF root = None THEN Returned(RootFor(NodePositions(nodes)))
                      ELSE Returned(root[1])} :
       \E done \in {InsertRange(grown, NodePositions(nodes), 1, Len(nodes))} :
          /\ root' = Some(done.node)
          /\ pc' = IF done.thrown THEN "RangeError" ELSE "calculateForce"
    /\ UNCHANGED <<layoutRest, nodes, edges, centeredId, config, useBarnesHut,
                   iteration, random, calls, earlier>>

\* applyRepulsionBarnesHut: this.barnesHut.build(positions)
BarnesHutBuild ==
    /\ pc = "repulsion"
    /\ useBarnesHut
    /\ positions' = NodePositions(nodes)
    /\ \E done \in {Build(NodePositions(nodes))} :
          /\ root' = done.root
          /\ pc' = IF done.thrown THEN "RangeError" ELSE "calculateForce"
    /\ UNCHANGED <<layoutRest, nodes, edges, centeredId, config, useBarnesHut,
                   iteration, random, calls, earlier>>

\* applyRepulsionBarnesHut: the loop of calculateForce over the nodes
BarnesHutForces ==
    /\ pc = "calculateForce"
    /\ nodes' = ApplyTreeForces(nodes, config[1])
    /\ pc' = "attraction"
    /\ UNCHANGED <<layoutRest, edges, centeredId, config, useBarnesHut,
                   iteration, random, calls, earlier, positions, root>>

\* this.applyAttraction(nodes, edges)
ApplyAttractionCall ==
    /\ pc = "attraction"
    /\ nodes' = ApplyAttraction(nodes, edges, config[1], 1)
    /\ pc' = "centerForce"
    /\ UNCHANGED <<layoutRest, edges, centeredId, config, useBarnesHut,
                   iteration, random, calls, earlier, positions, root>>

\* this.applyCenterForce(nodes)
ApplyCenterForceCall ==
    /\ pc = "centerForce"
    /\ nodes' = ApplyCenterForce(nodes, config[1])
    /\ pc' = "generationForce"
    /\ UNCHANGED <<layoutRest, edges, centeredId, config, useBarnesHut,
                   iteration, random, calls, earlier, positions, root>>

\* this.applyGenerationForce(nodes)
ApplyGenerationForceCall ==
    /\ pc = "generationForce"
    /\ nodes' = ApplyGenerationForce(nodes, config[1])
    /\ pc' = "updatePositions"
    /\ UNCHANGED <<layoutRest, edges, centeredId, config, useBarnesHut,
                   iteration, random, calls, earlier, positions, root>>

\* const temperature of the simulation step number i
temperature == Temperature(iteration, config[1].iterations)

\* simulationStep: the loop that updates the positions, then i++
UpdatePositionsLoop ==
    /\ pc = "updatePositions"
    /\ nodes' = UpdatePositions(nodes, temperature)
    /\ iteration' = iteration + 1
    /\ pc' = LoopOrCenter(iteration + 1)
    /\ UNCHANGED <<layoutRest, edges, centeredId, config, useBarnesHut, random,
                   calls, earlier, positions, root>>

\* this.centerLayout(nodes), and calculate returns
CenterLayoutCall ==
    /\ pc = "centerLayout"
    /\ nodes' = CenterLayout(nodes)
    /\ pc' = "returned"
    /\ UNCHANGED <<layoutRest, edges, centeredId, config, useBarnesHut,
                   iteration, random, calls, earlier, positions, root>>

\* What a later call can be compared with: the arguments of this call, its
\* seed, the path it took and the nodes as it leaves them.
ThisCall ==
    [nodes |-> nodes, edges |-> edges, centeredId |-> centeredId,
     config |-> config[1], seed |-> random[1].seed,
     useBarnesHut |-> useBarnesHut]

\* The nodes as FamilyGraph.buildNodes creates them.
AsBuilt(nds) ==
    [k \in 1..Len(nds) |->
        [nds[k] EXCEPT !.position = Vec3(0, 0, 0), !.velocity = Vec3(0, 0, 0)]]

\* layout.calculate(nodes, edges, centeredId) once more: the same layout and
\* the same node objects, Math.random drawing the same values again
\* (followed for short node lists).
CalculateAgain ==
    /\ pc = "returned"
    /\ calls < MaxCalls
    /\ Len(nodes) <= MaxNodes
    /\ earlier' = Some(ThisCall)
    /\ random' = Some([random[1] EXCEPT !.drawn = 0])
    /\ pc' = "calculate"
    /\ UNCHANGED <<layoutRest, nodes, edges, centeredId, config, useBarnesHut,
                   iteration, calls, positions, root>>

\* new ForceDirectedLayout(config).calculate(nodes, edges, centeredId) on
\* nodes built anew from the same data, Math.random drawing the same values
\* (followed for short node lists).
CalculateAfresh ==
    /\ pc = "returned"
    /\ calls < MaxCalls
    /\ Len(nodes) <= MaxNodes
    /\ earlier' = Some(ThisCall)
    /\ nodes' = AsBuilt(nodes)
    /\ random' = Some([random[1] EXCEPT !.drawn = 0])
    /\ useBarnesHut' = FALSE
    /\ root' = None
    /\ pc' = "calculate"
    /\ UNCHANGED <<layoutRest, edges, centeredId, config, iteration, calls,
                   positions>>

\* layout.calculate(nodes.slice(0, n), edges, centeredId) on the same layout,
\* for n <= MaxNodes nodes that are fewer than before.
CalculateOnFewer ==
    /\ pc = "returned"
    /\ calls < MaxCalls
    /\ earlier' = Some(ThisCall)
    /\ \E n \in 0..MathMin(MaxNodes, Len(nodes) - 1) :
          nodes' = SubSeq(nodes, 1, n)
    /\ random' = Some([random[1] EXCEPT !.drawn = 0])
    /\ pc' = "calculate"
    /\ UNCHANGED <<layoutRest, edges, centeredId, config, useBarnesHut,
                   iteration, calls, positions, root>>

NextLayout ==
    \/ CalculateCall
    \/ InitializePositionsCall
    \/ ResetForcesLoop
    \/ ApplyRepulsionDirectCall
    \/ BarnesHutBuild
    \/ BarnesHutForces
    \/ ApplyAttractionCall
    \/ ApplyCenterForceCall
    \/ ApplyGenerationForceCall
    \/ UpdatePositionsLoop
    \/ CenterLayoutCall
    \/ CalculateAgain
    \/ CalculateAfresh
    \/ CalculateOnFewer

SpecLayout == InitLayout /\ [][NextLayout]_vars

---------------------------------------------------------------------------
(* The constructor of FamilyGraph as a state machine *)

Init ==
    /\ \/ GeneralData(familyData)
       \/ KeyData(familyData)
       \/ ParentData(familyData)
       \/ HintData(familyData)
    /\ pc = "constructor"
    /\ centeredId = EmptyString
    /\ nodeOrder = <<>>
    /\ generation = <<>>
    /\ connections = <<>>
    /\ edges = <<>>
    /\ visited = {}
    /\ queue = <<>>
    /\ firstBuild = None
    /\ query = None
    /\ TreeIdle
    /\ ParserIdle
    /\ LayoutIdle

\* this.centeredId = this.determineCenteredPerson(familyData)
DetermineCentered ==
    /\ pc = "constructor"
    /\ UNCHANGED restVars
    /\ centeredId' = DetermineCenteredPerson(familyData)
    /\ pc' = "buildNodes"
    /\ UNCHANGED <<familyData, nodeOrder, generation, connections, edges,
                   visited, queue>>

\* this.buildNodes(familyData)
BuildNodes ==
    /\ pc = "buildNodes"
    /\ UNCHANGED restVars
    /\ nodeOrder' = NodeKeys(familyData.people, Len(familyData.people))
    /\ generation' = [id \in RangeOf(nodeOrder') |-> 0]
    /\ connections' = [id \in RangeOf(nodeOrder') |-> <<>>]
    /\ pc' = "buildEdges"
    /\ UNCHANGED <<familyData, centeredId, edges, visited, queue>>

\* this.buildEdges(familyData), which ends with inferSiblings
BuildEdgesStep ==
    /\ pc = "buildEdges"
    /\ UNCHANGED restVars
    /\ LET built == BuildEdges(familyData, connections)
       IN  /\ edges' = built.edges
           /\ connections' = built.connections
    /\ pc' = "calculateGenerations"
    /\ UNCHANGED <<familyData, centeredId, nodeOrder, generation, visited, queue>>

\* calculateGenerations up to the while loop
StartGenerations ==
    /\ pc = "calculateGenerations"
    /\ UNCHANGED restVars
    /\ IF centeredId \notin DOMAIN generation
       THEN /\ pc' = "done"
            /\ UNCHANGED <<generation, visited, queue>>
       ELSE /\ generation' = [generation EXCEPT ![centeredId] = 0]
            /\ visited' = {centeredId}
            /\ queue' = <<[id |-> centeredId, gen |-> 0]>>
            /\ pc' = "while"
    /\ UNCHANGED <<familyData, centeredId, nodeOrder, connections, edges>>

\* The while loop taking any queued entry instead of queue.shift().
ProcessNodeStepAnyEntry ==
    /\ pc = "while"
    /\ UNCHANGED restVars
    /\ queue # <<>>
    /\ \E i \in 1..Len(queue) :
          LET q == <<queue[i]>> \o SubSeq(queue, 1, i - 1)
                                \o SubSeq(queue, i + 1, Len(queue))
              st == ProcessNode(visited, generation, q, edges)
          IN  /\ visited' = st.visited
              /\ generation' = st.generation
              /\ queue' = st.queue
    /\ UNCHANGED <<familyData, pc, centeredId, nodeOrder, connections, edges>>

\* one iteration of the while loop
ProcessNodeStep ==
    /\ pc = "while"
    /\ UNCHANGED restVars
    /\ queue # <<>>
    /\ LET st == ProcessNode(visited, generation, queue, edges)
       IN  /\ visited' = st.visited
           /\ generation' = st.generation
           /\ queue' = st.queue
    /\ UNCHANGED <<familyData, pc, centeredId, nodeOrder, connections, edges>>

\* the while loop ends and the constructor returns
Finish ==
    /\ pc = "while"
    /\ UNCHANGED restVars
    /\ queue = <<>>
    /\ pc' = "done"
    /\ UNCHANGED <<familyData, centeredId, nodeOrder, generation, connections,
                   edges, visited, queue>>

Next ==
    \/ DetermineCentered
    \/ BuildNodes
    \/ BuildEdgesStep
    \/ StartGenerations
    \/ ProcessNodeStep
    \/ Finish

Spec == Init /\ [][Next]_vars

\* Most parentIds and childIds references in a dataset with cycles.
MaxCycleRefs == 3

\* People declaring parents and children in any way: themselves, each other
\* and around in a circle.
CycleData(fd) ==
    \E roster \in Prefixes(SimpleIds), r \in 0..MaxCycleRefs :
        \E slotOf \in Deals(r, 2 * Len(roster)) :
            \E refs \in [1..r -> RangeOf(SimpleIds)] :
                fd = [meta |-> [centeredPersonId |-> None],
                      people |-> [i \in 1..Len(roster) |->
                          Person(roster[i], None, "undefined",
                                 RefList(refs, slotOf, 2 * i), <<>>,
                                 RefList(refs, slotOf, 2 * i - 1))]]

InitCycle ==
    /\ CycleData(familyData)
    /\ pc = "constructor"
    /\ centeredId = EmptyString
    /\ nodeOrder = <<>>
    /\ generation = <<>>
    /\ connections = <<>>
    /\ edges = <<>>
    /\ visited = {}
    /\ queue = <<>>
    /\ firstBuild = None
    /\ query = None
    /\ TreeIdle
    /\ ParserIdle
    /\ LayoutIdle

\* The constructor is straight-line code run by one thread: it keeps taking
\* its next step until it returns. This is the weak fairness of Next,
\* WF_vars(Next), written without ENABLED: a step of Next is possible exactly
\* while pc is not "done".
Scheduling == []<>(pc = "done") \/ []<><<Next>>_vars

SpecCycle == InitCycle /\ [][Next]_vars /\ Scheduling

\* The same dataset is handed to the constructor a second time.
InitTwice ==
    /\ \/ TwiceData(familyData)
       \/ KeyData(familyData)
    /\ pc = "constructor"
    /\ centeredId = EmptyString
    /\ nodeOrder = <<>>
    /\ generation = <<>>
    /\ connections = <<>>
    /\ edges = <<>>
    /\ visited = {}
    /\ queue = <<>>
    /\ firstBuild = None
    /\ query = None
    /\ TreeIdle
    /\ ParserIdle
    /\ LayoutIdle

\* What a finished FamilyGraph holds.
Built ==
    [nodeOrder |-> nodeOrder, edges |-> edges, generation |-> generation,
     connections |-> connections, centeredId |-> centeredId]

\* new FamilyGraph(familyData) once more: the first graph is kept aside and
\* the constructor starts on fresh nodes and edges.
BuildAgain ==
    /\ pc = "done"
    /\ firstBuild = None
    /\ firstBuild' = Some(Built)
    /\ pc' = "constructor"
    /\ centeredId' = EmptyString
    /\ nodeOrder' = <<>>
    /\ generation' = <<>>
    /\ connections' = <<>>
    /\ edges' = <<>>
    /\ visited' = {}
    /\ queue' = <<>>
    /\ UNCHANGED <<familyData, query, parserVars, treeVars, layoutVars>>

NextTwice ==
    \/ DetermineCentered
    \/ BuildNodes
    \/ BuildEdgesStep
    \/ StartGenerations
    \/ ProcessNodeStep
    \/ Finish
    \/ BuildAgain

SpecTwice == InitTwice /\ [][NextTwice]_vars

---------------------------------------------------------------------------
(* The accessors of a finished FamilyGraph *)

\* [...new Set(arr)]: the elements of arr in order of first occurrence.
RECURSIVE SpreadOfSet(_, _)
SpreadOfSet(arr, i) ==
    IF i = 0 THEN <<>>
    ELSE LET before == SpreadOfSet(arr, i - 1)
         IN  IF arr[i] \in RangeOf(before) THEN before
             ELSE Append(before, arr[i])

\* getRelatives returning node.connections as they are.
GetRelativesNoSet(personId) ==
    IF personId \in DOMAIN connections
    THEN connections[personId]
    ELSE <<>>

GetRelatives(personId) ==
    IF personId \in DOMAIN connections
    THEN SpreadOfSet(connections[personId], Len(connections[personId]))
    ELSE <<>>

\* Array.from(this.nodes.values()).filter(...): the node ids kept by the
\* filter, in the order of the Map.
RECURSIVE GenerationFilter(_, _)
GenerationFilter(g, i) ==
    IF i = 0 THEN <<>>
    ELSE IF generation[nodeOrder[i]] = g
         THEN Append(GenerationFilter(g, i - 1), nodeOrder[i])
         ELSE GenerationFilter(g, i - 1)

GetGenerationNodes(g) == GenerationFilter(g, Len(nodeOrder))

\* The loop of getGenerationRange over the first i nodes of the Map.
RECURSIVE RangeLoop(_)
RangeLoop(i) ==
    IF i = 0 THEN [min |-> 0, max |-> 0]
    ELSE LET before == RangeLoop(i - 1)
         IN  [min |-> MathMin(before.min, generation[nodeOrder[i]]),
              max |-> MathMax(before.max, generation[nodeOrder[i]])]

\* getGenerationRange taking the minimum where it should take the maximum.
GetGenerationRangeMinTwice ==
    LET range == RangeLoop(Len(nodeOrder))
    IN  [min |-> range.min, max |-> range.min]

GetGenerationRange == RangeLoop(Len(nodeOrder))

\* The ids and generations the accessors are called with.
QueryIds == {IdA, IdB, IdC, IdAB, IdBC}

MaxGeneration == 3

QueryGenerations == (0 - MaxGeneration)..MaxGeneration

InitQuery ==
    /\ \/ QueryData(familyData)
       \/ ParentData(familyData)
    /\ pc = "constructor"
    /\ centeredId = EmptyString
    /\ nodeOrder = <<>>
    /\ generation = <<>>
    /\ connections = <<>>
    /\ edges = <<>>
    /\ visited = {}
    /\ queue = <<>>
    /\ firstBuild = None
    /\ query = None
    /\ TreeIdle
    /\ ParserIdle
    /\ LayoutIdle

GetRelativesCall ==
    /\ pc = "done"
    /\ \E personId \in QueryIds :
          query' = Some([op |-> "getRelatives", personId |-> personId,
                         result |-> GetRelatives(personId)])
    /\ UNCHANGED <<graphVars, firstBuild, parserVars, treeVars, layoutVars>>

GetGenerationNodesCall ==
    /\ pc = "done"
    /\ \E g \in QueryGenerations :
          query' = Some([op |-> "getGenerationNodes", generation |-> g,
                         result |-> GetGenerationNodes(g)])
    /\ UNCHANGED <<graphVars, firstBuild, parserVars, treeVars, layoutVars>>

GetGenerationRangeCall ==
    /\ pc = "done"
    /\ query' = Some([op |-> "getGenerationRange", result |-> GetGenerationRange])
    /\ UNCHANGED <<graphVars, firstBuild, parserVars, treeVars, layoutVars>>

NextQuery ==
    \/ DetermineCentered
    \/ BuildNodes
    \/ BuildEdgesStep
    \/ StartGenerations
    \/ ProcessNodeStep
    \/ Finish
    \/ GetRelativesCall
    \/ GetGenerationNodesCall
    \/ GetGenerationRangeCall

SpecQuery == InitQuery /\ [][NextQuery]_vars

---------------------------------------------------------------------------
(* Vocabulary of the properties *)

People == familyData.people

Persons == 1..Len(People)

NodeIds == DOMAIN generation

EdgeIdx == 1..Len(edges)

MetaGiven == familyData.meta.centeredPersonId # None

\* buildEdges has returned.
EdgesBuilt == pc \in {"calculateGenerations", "while", "done"}

Done == pc = "done"

\* Edge k joins x and y, in either direction.
Joins(k, x, y) ==
    \/ edges[k].sourceId = x /\ edges[k].targetId = y
    \/ edges[k].sourceId = y /\ edges[k].targetId = x

EdgesBetween(x, y, type) ==
    {k \in EdgeIdx : edges[k].type = type /\ Joins(k, x, y)}

SharedParents(i, j) ==
    RangeOf(People[i].parentIds) \cap RangeOf(People[j].parentIds)

---------------------------------------------------------------------------
(* Edge construction *)

\* C1: the edge list holds at most one edge for each (unordered pair of
\* person ids, kind), however often and from whichever side the relationship
\* is declared.
C1_OneEdgePerPairAndKind ==
    EdgesBuilt =>
        \A k, l \in EdgeIdx :
            (k # l /\ edges[k].type = edges[l].type)
                => ~Joins(k, edges[l].sourceId, edges[l].targetId)

\* A graph in which two different people name each other as spouse, one of
\* them twice, and a single spouse edge joins them.
C1_Witness ==
    /\ Done
    /\ \E i, j \in Persons :
          /\ People[i].id # People[j].id
          /\ People[i].id \in RangeOf(People[j].spouseIds)
          /\ \E a, b \in 1..Len(People[i].spouseIds) :
                /\ a # b
                /\ People[i].spouseIds[a] = People[j].id
                /\ People[i].spouseIds[b] = People[j].id
          /\ Cardinality(EdgesBetween(People[i].id, People[j].id, "spouse")) = 1

\* C2: every childIds entry and every spouseIds entry that names an existing
\* node is joined to the declaring person by an edge of the matching kind.
C2_NoDeclaredRelationshipLost ==
    EdgesBuilt =>
        \A i \in Persons :
            /\ \A c \in RangeOf(People[i].childIds) \cap NodeIds :
                  EdgesBetween(People[i].id, c, "parent-child") # {}
            /\ \A sp \in RangeOf(People[i].spouseIds) \cap NodeIds :
                  EdgesBetween(People[i].id, sp, "spouse") # {}

\* C3: two different people have exactly one sibling edge between them when
\* their parentIds share an id, and none otherwise.
C3_SiblingEdges ==
    EdgesBuilt =>
        \A i, j \in Persons :
            People[i].id # People[j].id =>
                Cardinality(EdgesBetween(People[i].id, People[j].id, "sibling"))
                    = IF SharedParents(i, j) # {} THEN 1 ELSE 0

\* C4: every edge carries the strength of its kind: 1.0 for parent-child,
\* 0.8 for spouse, 0.6 for sibling (in tenths).
C4_StrengthByKind ==
    \A k \in EdgeIdx :
        edges[k].strength =
            CASE edges[k].type = "parent-child" -> 10
              [] edges[k].type = "spouse" -> 8
              [] edges[k].type = "sibling" -> 6

\* A graph with a sibling edge next to a parent-child or a spouse edge.
C4_Witness ==
    /\ Done
    /\ \E k \in EdgeIdx : edges[k].type = "sibling"
    /\ \E k \in EdgeIdx : edges[k].type # "sibling"

\* C5: both endpoints of every edge are ids of existing nodes, whatever the
\* references of the dataset name.
C5_EndpointsExist ==
    \A k \in EdgeIdx :
        edges[k].sourceId \in NodeIds /\ edges[k].targetId \in NodeIds

\* A graph with edges built from a dataset in which a childIds or spouseIds
\* entry and a parentIds entry name no person.
C5_Witness ==
    /\ Done
    /\ edges # <<>>
    /\ \E i \in Persons :
          (RangeOf(People[i].childIds) \cup RangeOf(People[i].spouseIds))
              \ NodeIds # {}
    /\ \E i \in Persons : RangeOf(People[i].parentIds) \ NodeIds # {}

---------------------------------------------------------------------------
(* Focal person *)

\* determineCenteredPerson has returned.
CenteredKnown == pc # "constructor"

Gen0Complete(i) == People[i].generation = Some(0) /\ People[i].status = "complete"

Gen0(i) == People[i].generation = Some(0)

\* C6: the focal id is chosen by the first matching rule of: the explicit
\* meta.centeredPersonId; the first person with hint generation 0 and status
\* complete; the first person with hint generation 0; the first person.
C6_FocalPriority ==
    CenteredKnown =>
        /\ MetaGiven => centeredId = familyData.meta.centeredPersonId[1]
        /\ \A i \in Persons :
              (/\ ~MetaGiven
               /\ Gen0Complete(i)
               /\ \A j \in 1..(i - 1) : ~Gen0Complete(j))
                  => centeredId = People[i].id
        /\ \A i \in Persons :
              (/\ ~MetaGiven
               /\ \A j \in Persons : ~Gen0Complete(j)
               /\ Gen0(i)
               /\ \A j \in 1..(i - 1) : ~Gen0(j))
                  => centeredId = People[i].id
        /\ (/\ ~MetaGiven
            /\ \A j \in Persons : ~Gen0(j)
            /\ People # <<>>)
               => centeredId = People[1].id

\* No explicit focal id; the first person with hint generation 0 is not
\* complete and a later one is, so that the second rule decides against the
\* third and the fourth.
C6_Witness ==
    /\ Done
    /\ ~MetaGiven
    /\ \E i, j \in Persons :
          /\ 1 < i /\ i < j
          /\ Gen0(i) /\ ~Gen0Complete(i)
          /\ Gen0Complete(j)
          /\ centeredId = People[j].id

\* C7 as stated: without meta.centeredPersonId the graph is centered on the
\* first person of the people list.
C7_DefaultsToFirstPerson ==
    (CenteredKnown /\ ~MetaGiven /\ People # <<>>) => centeredId = People[1].id

\* C7 as amended: without meta.centeredPersonId and without any person that
\* carries the generation hint 0, the graph is centered on the first person
\* of the people list.
C7_DefaultsToFirstPersonWithoutHints ==
    (/\ CenteredKnown
     /\ ~MetaGiven
     /\ People # <<>>
     /\ \A j \in Persons : ~Gen0(j))
        => centeredId = People[1].id

\* No explicit focal id and no generation hint 0, several people, and the
\* traversal has run from the first of them.
C7_Witness ==
    /\ Done
    /\ ~MetaGiven
    /\ Len(People) > 1
    /\ \A j \in Persons : ~Gen0(j)
    /\ \E j \in Persons : People[j].generation # None
    /\ centeredId = People[1].id
    /\ centeredId \in visited

---------------------------------------------------------------------------
(* Generation assignment *)

FocalExists == centeredId \in NodeIds

\* Edge k is a parent-child edge from parent x to child y.
ParentChild(k, x, y) ==
    edges[k].type = "parent-child" /\ edges[k].sourceId = x /\ edges[k].targetId = y

IsParentOf(x, y) == \E k \in EdgeIdx : ParentChild(k, x, y)

Touches(k, x) == edges[k].sourceId = x \/ edges[k].targetId = x

\* The focal node has generation 0 from the start of the traversal on.
FocalAtZero ==
    (pc \in {"while", "done"} /\ FocalExists) => generation[centeredId] = 0

\* One iteration of the traversal gives every node it reaches across a
\* parent-child edge the generation of the processed node plus one (the edge's
\* child) or minus one (the edge's parent).
ParentChildStep ==
    (pc = "while" /\ queue # <<>>) =>
        LET n == Head(queue).id
        IN  \A m \in visited' \ visited :
                /\ IsParentOf(n, m) => generation'[m] = generation[n] + 1
                /\ IsParentOf(m, n) => generation'[m] = generation[n] - 1

\* x, y, z are linked by the parent-child edges up -> mid and mid -> low (up
\* the parent) and touch no other edge.
Chain(up, mid, low) ==
    /\ Cardinality({up, mid, low}) = 3
    /\ IsParentOf(up, mid)
    /\ IsParentOf(mid, low)
    /\ \A k \in EdgeIdx :
          (Touches(k, up) \/ Touches(k, mid) \/ Touches(k, low))
              => (ParentChild(k, up, mid) \/ ParentChild(k, mid, low))

\* In a chain focal, parent, grandparent the generations are 0, -1, -2; in a
\* chain focal, child, grandchild they are 0, 1, 2.
ChainGenerations ==
    Done =>
        \A x, y \in NodeIds :
            /\ Chain(x, y, centeredId) =>
                  /\ generation[centeredId] = 0
                  /\ generation[y] = -1
                  /\ generation[x] = -2
            /\ Chain(centeredId, x, y) =>
                  /\ generation[centeredId] = 0
                  /\ generation[x] = 1
                  /\ generation[y] = 2

\* C8: the focal node starts at generation 0; a node first reached from a
\* node of generation g across a parent-child edge gets g + 1 as the edge's
\* child and g - 1 as the edge's parent; chains of parents count down from
\* the focal node and chains of children count up.
C8_ParentChildGenerations ==
    /\ [](FocalAtZero /\ ChainGenerations)
    /\ [][ParentChildStep]_vars

\* A finished graph whose focal person has a parent and a grandparent in a
\* chain.
C8_Witness ==
    /\ Done
    /\ \E x, y \in NodeIds : Chain(x, y, centeredId)

\* The nodes joined to x by some edge.
Adjacent(x) ==
    {y \in NodeIds : \E k \in EdgeIdx : edges[k].sourceId = x /\ edges[k].targetId = y}
    \cup {y \in NodeIds : \E k \in EdgeIdx : edges[k].targetId = x /\ edges[k].sourceId = y}

Parents(x) == {y \in NodeIds : IsParentOf(y, x)}

Children(x) == {y \in NodeIds : IsParentOf(x, y)}

Related(way, x) ==
    CASE way = "edge" -> Adjacent(x)
      [] way = "parent" -> Parents(x)
      [] way = "child" -> Children(x)

\* The least set that contains S and with each node the nodes related to it.
RECURSIVE Closure(_, _)
Closure(S, way) ==
    LET T == S \cup UNION {Related(way, x) : x \in S}
    IN  IF T = S THEN S ELSE Closure(T, way)

\* The nodes connected to the focal node by a path of edges.
Component == IF FocalExists THEN Closure({centeredId}, "edge") ELSE {}

\* The other people reachable from the focal person from child to parent.
Ancestors ==
    IF FocalExists THEN Closure(Parents(centeredId), "parent") \ {centeredId} ELSE {}

\* The other people reachable from the focal person from parent to child.
Descendants ==
    IF FocalExists THEN Closure(Children(centeredId), "child") \ {centeredId} ELSE {}

\* The relationships connected to the focal person admit a layering: layers
\* can be given to the people such that every child is one layer below its
\* parent and spouses and siblings are in the same layer.
Layered ==
    LET others == Component \ {centeredId}
        depth == Cardinality(others)
    IN  \E g \in [others -> (0 - depth)..depth] :
            LET h == [x \in Component |-> IF x = centeredId THEN 0 ELSE g[x]]
            IN  \A k \in EdgeIdx :
                    edges[k].sourceId \in Component =>
                        IF edges[k].type = "parent-child"
                        THEN h[edges[k].targetId] = h[edges[k].sourceId] + 1
                        ELSE h[edges[k].targetId] = h[edges[k].sourceId]

SameGenerationEdges ==
    \A k \in EdgeIdx :
        edges[k].type \in {"spouse", "sibling"}
            => generation[edges[k].sourceId] = generation[edges[k].targetId]

AncestorsNegativeDescendantsPositive ==
    /\ \A v \in Ancestors : generation[v] < 0
    /\ \A v \in Descendants : generation[v] > 0

---------------------------------------------------------------------------
(* Reach of the traversal *)

\* C11: after construction every node that no path of edges connects to the
\* focal node has generation 0, and the traversal has visited exactly the
\* nodes that some path of edges connects to the focal node.
C11_UnconnectedKeepZeroConnectedVisited ==
    Done =>
        /\ \A v \in NodeIds \ Component : generation[v] = 0
        /\ FocalExists => visited = Component

\* A finished graph with a node the focal node is not connected to, and a
\* visited node two edges away from the focal node that was given a
\* generation other than 0.
C11_Witness ==
    /\ Done
    /\ FocalExists
    /\ NodeIds \ Component # {}
    /\ \E v \in visited :
          /\ v \notin Adjacent(centeredId) \cup {centeredId}
          /\ generation[v] # 0

---------------------------------------------------------------------------
(* A focal id that names no node *)

\* The dataset gives a focal id that resolves to no node: the people list is
\* empty, or meta.centeredPersonId names nobody of the list.
FocalUnresolved ==
    \/ People = <<>>
    \/ /\ Truthy(familyData.meta.centeredPersonId)
       /\ \A i \in Persons : People[i].id # familyData.meta.centeredPersonId[1]

\* Nodes and edges are those that buildNodes and buildEdges make of the
\* dataset whatever the focal id is.
BuiltNormally ==
    /\ nodeOrder = NodeKeys(People, Len(People))
    /\ \A i \in Persons : People[i].id \in NodeIds
    /\ LET built == BuildEdges(familyData, [id \in NodeIds |-> <<>>])
       IN  edges = built.edges /\ connections = built.connections

\* C12: when the focal id resolves to no node the constructor completes
\* without propagating generations: nothing is visited or queued, every node
\* has generation 0, and nodes and edges are built as for any other dataset.
C12_UnresolvedFocalIsSoft ==
    (Done /\ FocalUnresolved) =>
        /\ ~FocalExists
        /\ visited = {} /\ queue = <<>>
        /\ \A v \in NodeIds : generation[v] = 0
        /\ BuiltNormally

\* A finished graph with a parent-child edge whose meta.centeredPersonId
\* names nobody of the people list.
C12_Witness ==
    /\ Done
    /\ MetaGiven
    /\ People # <<>>
    /\ FocalUnresolved
    /\ \E k \in EdgeIdx : edges[k].type = "parent-child"

\* A finished graph of an empty people list.
C12_EmptyPeopleFinished == Done /\ People = <<>>

---------------------------------------------------------------------------
(* Determinism of the construction *)

---------------------------------------------------------------------------
(* Accessors *)

Called(op) == query # None /\ query[1].op = op

NoDuplicates(arr) == \A i, j \in 1..Len(arr) : arr[i] = arr[j] => i = j

\* The ids that at least one edge joins to id.
JoinedTo(id) ==
    {edges[k].targetId : k \in {l \in EdgeIdx : edges[l].sourceId = id}}
    \cup {edges[k].sourceId : k \in {l \in EdgeIdx : edges[l].targetId = id}}

\* C14: getRelatives(id) returns without duplicates exactly the ids that an
\* edge joins to id, and the empty list when id is no node; on a finished
\* graph b is among getRelatives(a) exactly when a is among getRelatives(b).
C14_GetRelatives ==
    /\ Called("getRelatives") =>
          /\ NoDuplicates(query[1].result)
          /\ RangeOf(query[1].result) = JoinedTo(query[1].personId)
          /\ query[1].personId \notin NodeIds => query[1].result = <<>>
    /\ Done =>
          \A x, y \in QueryIds :
              x \in RangeOf(GetRelatives(y)) <=> y \in RangeOf(GetRelatives(x))

\* getRelatives was called for a person whose connections name the same
\* relative twice and who has a second relative.
C14_Witness ==
    /\ Called("getRelatives")
    /\ query[1].personId \in NodeIds
    /\ ~NoDuplicates(connections[query[1].personId])
    /\ Len(query[1].result) >= 2

\* getRelatives was called for an id that is no node.
C14_UnknownIdAsked ==
    /\ Called("getRelatives")
    /\ query[1].personId \notin NodeIds
    /\ Len(edges) > 0

\* C15: getGenerationRange returns a minimum that no node's generation is
\* below and a maximum that no node's generation is above, each of them the
\* generation of some node when the graph has a node; getGenerationNodes(g)
\* returns, each once, exactly the nodes whose generation is g.
C15_GenerationAccessors ==
    /\ Called("getGenerationRange") =>
          /\ \A v \in NodeIds : query[1].result.min <= generation[v]
          /\ \A v \in NodeIds : generation[v] <= query[1].result.max
          /\ NodeIds # {} =>
                /\ \E v \in NodeIds : generation[v] = query[1].result.min
                /\ \E v \in NodeIds : generation[v] = query[1].result.max
    /\ Called("getGenerationNodes") =>
          /\ NoDuplicates(query[1].result)
          /\ RangeOf(query[1].result) =
                {v \in NodeIds : generation[v] = query[1].generation}

\* getGenerationRange was called on a graph with nodes above and below the
\* focal generation and answered with bounds other than 0.
C15_Witness ==
    /\ Called("getGenerationRange")
    /\ query[1].result.min < 0
    /\ query[1].result.max > 0

\* getGenerationNodes was called for a generation other than 0 that two
\* nodes have.
C15_TwoNodesOfAGeneration ==
    /\ Called("getGenerationNodes")
    /\ query[1].generation # 0
    /\ Len(query[1].result) >= 2

---------------------------------------------------------------------------
(* Biography weight *)

\* Greatest difference in length of the biographies that are compared.
MaxGap == 2

\* The number of characters of a biography, 0 when it is missing.
RawLength(bio) == IF bio = None THEN 0 ELSE StringLength(bio[1])

\* The number of characters left when the whitespace at both ends is gone.
TrimmedLength(bio) == IF bio = None THEN 0 ELSE StringLength(Trim(bio[1]))

\* The biographies whose text between the whitespace differs from that of
\* bio by at most MaxGap characters.
Near(bio) ==
    LET n == TrimmedLength(bio)
    IN  {Some(Text(lead, core, trail)) :
            lead \in 0..MaxPad, trail \in 0..MaxPad,
            core \in MathMax(0, n - MaxGap)..(n + MaxGap)}

Weighed == weight # None

\* C16 as stated: the weight lies in [0, 1], is 0 for an empty or missing
\* biography and 1.0 for one of 1000 or more characters, and a biography of
\* at most 1000 characters weighs more than every biography with fewer
\* characters.
C16_WeightMonotonicInLength ==
    Weighed =>
        /\ 0 <= weight[1] /\ weight[1] <= 10000
        /\ RawLength(biography) = 0 => weight[1] = 0
        /\ RawLength(biography) >= 1000 => weight[1] = 10000
        /\ RawLength(biography) <= 1000 =>
              \A other \in Near(biography) :
                  RawLength(other) < RawLength(biography)
                      => CalculateBiographyWeight(other) < weight[1]

\* C16 as amended: the same, the length of a biography being the number of
\* its characters after the whitespace at both ends is removed.
C16_WeightMonotonicInTrimmedLength ==
    Weighed =>
        /\ 0 <= weight[1] /\ weight[1] <= 10000
        /\ TrimmedLength(biography) = 0 => weight[1] = 0
        /\ TrimmedLength(biography) >= 1000 => weight[1] = 10000
        /\ TrimmedLength(biography) <= 1000 =>
              \A other \in Near(biography) :
                  TrimmedLength(other) < TrimmedLength(biography)
                      => CalculateBiographyWeight(other) < weight[1]

\* The weight of a biography of 999 characters between whitespace at both
\* ends was calculated and is neither 0 nor 1.0.
C16_Witness ==
    /\ Weighed
    /\ TrimmedLength(biography) = 999
    /\ RawLength(biography) > 1000
    /\ weight[1] > 0 /\ weight[1] < 10000

---------------------------------------------------------------------------
(* Validation *)

Validated == errors # None

ErrorIdx == 1..Len(errors[1])

IdsUnique == \A i, j \in Persons : People[i].id = People[j].id => i = j

PersonIds == {People[i].id : i \in Persons}

\* The list of person i that refType names.
RefsOf(i, refType) ==
    CASE refType = "parent" -> People[i].parentIds
      [] refType = "spouse" -> People[i].spouseIds
      [] refType = "child" -> People[i].childIds

RefTypes == {"parent", "spouse", "child"}

\* The places of the dataset where the person personId names, in its list
\* refType, the id refId that no person has.
Dangling(personId, refType, refId) ==
    {<<i, j>> \in Persons \X (1..MaxCheckedRefs) :
        /\ People[i].id = personId
        /\ j <= Len(RefsOf(i, refType))
        /\ RefsOf(i, refType)[j] = refId
        /\ refId \notin PersonIds}

ReferencesResolve ==
    \A i \in Persons, refType \in RefTypes :
        RangeOf(RefsOf(i, refType)) \subseteq PersonIds

\* The errors that report the dangling reference.
Reports(personId, refType, refId) ==
    {k \in ErrorIdx : errors[1][k] = ReferenceError(personId, refType, refId)}

ErrorsAsClaimed ==
    Validated =>
        /\ errors[1] = <<>> <=> (IdsUnique /\ ReferencesResolve)
        /\ \A personId \in {IdA, IdB}, refType \in RefTypes, refId \in {IdA, IdC} :
              Cardinality(Reports(personId, refType, refId))
                  = Cardinality(Dangling(personId, refType, refId))
        /\ \A k \in ErrorIdx :
              errors[1][k].kind = "reference"
                  => Dangling(errors[1][k].personId, errors[1][k].refType,
                              errors[1][k].refId) # {}
        /\ \A id \in PersonIds :
              (\E i, j \in Persons : i # j /\ People[i].id = id /\ People[j].id = id)
                  <=> \E k \in ErrorIdx :
                         /\ errors[1][k].kind = "duplicates"
                         /\ id \in RangeOf(errors[1][k].ids)

\* C17: validateFamilyData returns no error exactly when the ids are unique
\* and every reference names a person of the dataset; it returns one error
\* for each occurrence of a dangling reference, naming the missing id, and
\* an error naming every id that occurs more than once; the dataset is the
\* same after the call as before.
C17_ValidateFamilyData ==
    /\ []ErrorsAsClaimed
    /\ [][familyData' = familyData]_vars

\* A dataset was validated in which one person names the same missing id
\* twice and two people share an id.
C17_Witness ==
    /\ Validated
    /\ ~IdsUnique
    /\ \E personId \in {IdA, IdB}, refType \in RefTypes :
          Cardinality(Dangling(personId, refType, IdC)) = 2

\* A dataset with people and resolved references was validated without
\* errors.
C17_ValidDataset ==
    /\ Validated
    /\ errors[1] = <<>>
    /\ \E i \in Persons : People[i].parentIds # <<>>

---------------------------------------------------------------------------
(* Octree *)

Bodies == 0..(Len(positions) - 1)

\* Two bodies of the list have the same coordinates.
Coincident == \E i, j \in Bodies : i # j /\ positions[i + 1] = positions[j + 1]

\* In the model insert gives up only on bodies that no depth of recursion
\* separates.
RangeErrorOnlyWhenCoincident == pc = "RangeError" => Coincident

\* C18: build ends without an error for every list of positions, lists with
\* bodies of identical coordinates included (and calculateForce, which walks
\* the finished tree once, returns its vector).
C18_OctreeNeverErrors == pc # "RangeError"

\* The children of an octree node that are not null.
ChildrenOf(node) ==
    IF node.children = None THEN {}
    ELSE {node.children[o][1] : o \in {c \in 1..8 : node.children[c] # None}}

\* The bodies stored in the subtree of an octree node.
RECURSIVE BodiesIn(_)
BodiesIn(node) ==
    (IF node.bodyIndex # -1 THEN {node.bodyIndex} ELSE {})
    \cup UNION {BodiesIn(child) : child \in ChildrenOf(node)}

RECURSIVE MassOf(_, _)
MassOf(regions, i) ==
    IF i = 0 THEN 0 ELSE MassOf(regions, i - 1) + regions[i].mass

ForceAsked == force # None /\ force[1].bodyIndex \in Bodies

\* C19: the regions that calculateForce uses for the force on body i, asked
\* at the position of body i, do not hold body i, and their masses add up
\* to n - 1 (no region at all for a tree of body i alone).
C19_NoSelfForce ==
    ForceAsked =>
        /\ \A r \in 1..Len(force[1].regions) :
              force[1].bodyIndex \notin BodiesIn(force[1].regions[r])
        /\ MassOf(force[1].regions, Len(force[1].regions)) = Len(positions) - 1

\* The regions of the subtree of an octree node, the node included.
RECURSIVE RegionsOf(_)
RegionsOf(node) ==
    {node} \cup UNION {RegionsOf(child) : child \in ChildrenOf(node)}

RECURSIVE SumOf(_, _)
SumOf(S, axis) ==
    IF S = {} THEN 0
    ELSE LET i == CHOOSE b \in S : TRUE
             p == positions[i + 1]
             here == CASE axis = "x" -> p.x [] axis = "y" -> p.y [] axis = "z" -> p.z
         IN  here + SumOf(S \ {i}, axis)

RECURSIVE MassesOf(_)
MassesOf(S) ==
    IF S = {} THEN 0
    ELSE LET child == CHOOSE c \in S : TRUE
         IN  child.mass + MassesOf(S \ {child})

\* The mass of the region is the number of bodies stored in its subtree and,
\* for a region with children, the sum of their masses; its center of mass
\* is the average position of those bodies.
MassAndCenterRight(node) ==
    LET held == BodiesIn(node)
    IN  /\ node.mass = Cardinality(held)
        /\ node.children # None => node.mass = MassesOf(ChildrenOf(node))
        /\ node.mass > 0 =>
              /\ node.comX = Frac(SumOf(held, "x"), node.mass)
              /\ node.comY = Frac(SumOf(held, "y"), node.mass)
              /\ node.comZ = Frac(SumOf(held, "z"), node.mass)

TreeBuilt == pc = "built" /\ root # None

\* C20: after build of a list of n >= 1 positions the root has mass n, and
\* every region of the octree has the number of bodies of its subtree as
\* mass (an inner region the sum of the masses of its children) and their
\* average position as center of mass.
C20_MassAndCenterOfMass ==
    TreeBuilt =>
        /\ root[1].mass = Len(positions)
        /\ BodiesIn(root[1]) = Bodies
        /\ \A node \in RegionsOf(root[1]) : MassAndCenterRight(node)

\* A built octree in which a leaf below the root was subdivided: a child of
\* the root has children and holds two bodies or more.
C20_Witness ==
    /\ TreeBuilt
    /\ \E child \in ChildrenOf(root[1]) :
          /\ child.children # None
          /\ child.mass >= 2
          /\ child.comX # Whole(positions[1].x)

---------------------------------------------------------------------------
(* C29 *)

\* A person names itself, or two people name each other, as parent or child.
DeclaresParentChild(i, id) ==
    \/ \E k \in 1..Len(People[i].parentIds) : People[i].parentIds[k] = id
    \/ \E k \in 1..Len(People[i].childIds) : People[i].childIds[k] = id

SelfReference == \E i \in Persons : DeclaresParentChild(i, People[i].id)

MutualDeclaration ==
    \E i, j \in Persons :
        /\ i # j
        /\ DeclaresParentChild(i, People[j].id)
        /\ DeclaresParentChild(j, People[i].id)

\* A step changes the generation of a node only when it visits the node.
GenerationSetOnVisit ==
    \A id \in DOMAIN generation :
        (id \in DOMAIN generation' /\ generation'[id] # generation[id]) =>
            (id \notin visited /\ id \in visited')

\* C29: generation assignment ends for every dataset, cyclic and mutual
\* parent-child declarations and self-references included, and no step changes
\* the generation of a node that has been visited.
C29_GenerationsTerminateAssignOnce ==
    /\ <>(pc = "done")
    /\ [][GenerationSetOnVisit]_vars

\* A finished graph of a dataset with a self-reference and a mutual
\* declaration, all of whose nodes were visited.
C29_Witness ==
    /\ Done
    /\ SelfReference
    /\ MutualDeclaration
    /\ Cardinality(visited) >= 2
    /\ visited = NodeIds

---------------------------------------------------------------------------
(* C30 *)

\* The leaves of the octree that store the body.
LeavesOf(body) ==
    {leaf \in RegionsOf(root[1]) :
        leaf.children = None /\ leaf.bodyIndex = body}

\* center - halfSize <= p <= center + halfSize
Within(p, center, halfSize) ==
    /\ AtLeast(Whole(p), Minus(center, halfSize))
    /\ AtLeast(Plus(center, halfSize), Whole(p))

\* The cube of the region contains the position.
CubeContains(node, pos) ==
    /\ Within(pos.x, node.centerX, node.halfSize)
    /\ Within(pos.y, node.centerY, node.halfSize)
    /\ Within(pos.z, node.centerZ, node.halfSize)

\* C30: after build of pairwise distinct positions every body is stored in
\* exactly one leaf, whose cube contains the position of the body; a leaf
\* stores one body and no other index; a region with children stores no body
\* (bodyIndex = -1) and has at least one child.
C30_OneLeafPerBody ==
    (TreeBuilt /\ ~Coincident) =>
        /\ \A body \in Bodies :
              /\ Cardinality(LeavesOf(body)) = 1
              /\ \A leaf \in LeavesOf(body) :
                    CubeContains(leaf, positions[body + 1])
        /\ \A node \in RegionsOf(root[1]) :
              IF node.children = None
              THEN node.bodyIndex \in Bodies /\ node.mass = 1
              ELSE node.bodyIndex = -1 /\ ChildrenOf(node) # {}

\* An octree of three distinct bodies, two of them so close that the leaf of
\* one lies three regions or more below the root.
C30_Witness ==
    /\ TreeBuilt
    /\ ~Coincident
    /\ Len(positions) = 3
    /\ \E child \in ChildrenOf(root[1]) :
          \E grandchild \in ChildrenOf(child) :
              \E inner \in ChildrenOf(grandchild) :
                  \E leaf \in RegionsOf(inner) : leaf.bodyIndex = 2

---------------------------------------------------------------------------
(* C22 *)

\* distSq of applyRepulsionDirect for the bodies a and b, in tenths:
\* dx * dx + dy * dy + dz * dz + 0.1
DirectDistSq(a, b) ==
    LET dx == positions[b + 1].x - positions[a + 1].x
        dy == positions[b + 1].y - positions[a + 1].y
        dz == positions[b + 1].z - positions[a + 1].z
    IN  Frac(10 * (dx * dx + dy * dy + dz * dz) + 1, 10)

\* The smallest distSq between the body and another one.
NearestDistSq(a) ==
    LET others == Bodies \ {a}
        nearest == CHOOSE b \in others :
                       \A c \in others :
                           ~Less(DirectDistSq(a, c), DirectDistSq(a, b))
    IN  DirectDistSq(a, nearest)

\* The force of direct summation on body a is the sum of n - 1 vectors, the
\* one for body b of length repulsionForce / distSq(a, b) at most; so its
\* length is at most (n - 1) * repulsionForce / NearestDistSq(a). Here for
\* repulsionForce = 1.
DirectForceAtMost(a) ==
    Over(Whole(Len(positions) - 1), NearestDistSq(a))

\* The force that calculateForce returns when it uses the single region
\* node has the length (d / dist) * repulsionForce * mass / distSq, where
\* d / dist is the square root of (distSq - 0.1) / distSq, which is 20/21
\* at least when distSq is 1.1 or more. Here for repulsionForce = 1.
RegionForceAtLeast(node, pos) ==
    Times(Frac(20, 21), Over(Whole(node.mass), DistSq(node, pos)))

\* C22: the force that calculateForce returns for a body is within 5% of the
\* force of direct summation over the other bodies. Stated for the queries
\* that use one region at distSq >= 1.1, and without square roots: a force
\* within 5% of the direct one is at most 21/20 times as long, so
\* RegionForceAtLeast <= 21/20 * DirectForceAtMost.
C22_OctreeForceWithinFivePercent ==
    (/\ ForceAsked
     /\ Len(positions) >= 2
     /\ Len(force[1].regions) = 1
     /\ AtLeast(DistSq(force[1].regions[1], force[1].pos), Frac(11, 10))) =>
        ~Less(Times(Frac(21, 20), DirectForceAtMost(force[1].bodyIndex)),
              RegionForceAtLeast(force[1].regions[1], force[1].pos))

---------------------------------------------------------------------------
(* C21 *)

\* calculate has returned.
CalculateReturned == pc = "returned"

\* The sum of the positions of the nodes.
PositionSum == SumPositions(nodes, 1, Len(nodes))

\* C21: after calculate has returned for a node list that is not empty, the
\* mean of the node positions is the zero vector on every axis, within the
\* resolution of the positions (one unit of their grid): the sum over the n
\* nodes is less than n on each axis.
C21_MeanAtOrigin ==
    (CalculateReturned /\ Len(nodes) > 0) =>
        /\ Abs(PositionSum.x) < Len(nodes)
        /\ Abs(PositionSum.y) < Len(nodes)
        /\ Abs(PositionSum.z) < Len(nodes)

\* A call of at least one step has returned for two nodes or more, of which
\* one lies away from the origin on the y axis.
C21_Witness ==
    /\ CalculateReturned
    /\ Len(nodes) >= 2
    /\ iteration >= 1
    /\ \E k \in 1..Len(nodes) : nodes[k].position.y # 0

---------------------------------------------------------------------------
(* C23 *)

\* C23: the repulsion of a simulation step goes through the octree (build,
\* then the force loop) if and only if the node list of the call has more
\* than 100 nodes; otherwise it is the direct loop over the pairs, which
\* leads straight to the attraction. This holds for every call, whatever an
\* earlier call on the same layout chose.
C23_OctreeIffOverThreshold ==
    [][pc = "repulsion" =>
          /\ (pc' \in {"calculateForce", "RangeError"}) <=>
                 (Len(nodes) > BARNES_HUT_THRESHOLD)
          /\ (pc' = "attraction") <=> (Len(nodes) <= BARNES_HUT_THRESHOLD)
          /\ (root' # root) => (Len(nodes) > BARNES_HUT_THRESHOLD)]_vars

\* A call on at most 100 nodes has made its direct repulsion on a layout
\* whose call before was on more than 100 nodes and left its octree.
C23_Witness ==
    /\ pc = "attraction"
    /\ Len(nodes) <= BARNES_HUT_THRESHOLD
    /\ Len(nodes) >= 2
    /\ ~useBarnesHut
    /\ earlier # None
    /\ earlier[1].useBarnesHut
    /\ Len(earlier[1].nodes) > BARNES_HUT_THRESHOLD
    /\ root # None

---------------------------------------------------------------------------
(* C24 *)

\* The nodes with no velocity.
AtRest(nds) ==
    [k \in 1..Len(nds) |-> [nds[k] EXCEPT !.velocity = Vec3(0, 0, 0)]]

\* The nodes with the velocities that the forces of one step give them at
\* their present positions, starting from no velocity.
ForcesOfStep ==
    LET pushed == IF useBarnesHut THEN ApplyTreeForces(AtRest(nodes), config[1])
                  ELSE ApplyRepulsionDirect(AtRest(nodes), config[1])
        pulled == ApplyAttraction(pushed, edges, config[1], 1)
    IN  ApplyGenerationForce(ApplyCenterForce(pulled, config[1]), config[1])

\* Where calculate goes from each of its places.
OrderOfCalculate ==
    /\ pc = "calculate" => pc' = "initializePositions"
    /\ pc = "initializePositions" =>
          /\ iteration' = 0
          /\ pc' = IF config[1].iterations > 0 THEN "resetForces"
                   ELSE "centerLayout"
    /\ pc = "resetForces" => pc' = "repulsion"
    /\ pc = "repulsion" => pc' \in {"attraction", "calculateForce", "RangeError"}
    /\ pc = "calculateForce" => pc' = "attraction"
    /\ pc = "attraction" => pc' = "centerForce"
    /\ pc = "centerForce" => pc' = "generationForce"
    /\ pc = "generationForce" => pc' = "updatePositions"
    /\ pc = "updatePositions" =>
          /\ iteration' = iteration + 1
          /\ pc' = IF iteration + 1 < config[1].iterations THEN "resetForces"
                   ELSE "centerLayout"
    /\ pc = "centerLayout" => pc' = "returned"
    /\ pc \notin {"initializePositions", "updatePositions", "returned"} =>
          iteration' = iteration
    /\ pc \notin {"initializePositions", "returned"} => random' = random

\* Every node has drawn its two random values once, all steps are made when
\* the layout is centered, and the velocities that a step integrates are
\* those of the forces of that step.
StepsOfCalculate ==
    /\ pc \notin {"calculate", "initializePositions"} =>
          random[1].drawn = 2 * Len(nodes)
    /\ pc \in {"resetForces", "repulsion", "calculateForce", "attraction",
               "centerForce", "generationForce", "updatePositions"} =>
          iteration < config[1].iterations
    /\ pc \in {"centerLayout", "returned"} => iteration = config[1].iterations
    /\ pc = "repulsion" =>
          \A k \in 1..Len(nodes) : nodes[k].velocity = Vec3(0, 0, 0)
    /\ pc = "updatePositions" => nodes = ForcesOfStep

\* C24: calculate initializes the positions once, then makes exactly
\* config.iterations simulation steps, then centers the layout once; a step
\* resets the velocities, then applies repulsion, attraction, the center
\* force and the generation force, then updates the positions, so that the
\* velocity it integrates holds the forces of that step only.
C24_PhasesInOrder ==
    /\ []StepsOfCalculate
    /\ [][OrderOfCalculate]_vars

\* The second step of a call is about to update the positions, with
\* velocities, after a first step that left velocities too.
C24_Witness ==
    /\ pc = "updatePositions"
    /\ iteration = 1
    /\ Len(nodes) >= 2
    /\ edges # <<>>
    /\ \A k \in 1..Len(nodes) : nodes[k].velocity # Vec3(0, 0, 0)

---------------------------------------------------------------------------
(* C25 *)

\* A simulation step has applied its forces and is about to update the
\* positions.
Cooling == pc = "updatePositions"

\* C25 as claimed: the cooling multiplier is 1.0 in the first step, strictly
\* smaller in each following step, and 0.2 in the last step.
C25_CoolsToFifth ==
    Cooling =>
        /\ iteration = 0 => temperature = Whole(1)
        /\ iteration > 0 =>
              Less(temperature, Temperature(iteration - 1, config[1].iterations))
        /\ iteration = config[1].iterations - 1 => temperature = Frac(2, 10)

\* C25, amended: the cooling multiplier is 1.0 in the first step, smaller by
\* 0.8 / config.iterations in each following step, and 0.2 +
\* 0.8 / config.iterations in the last step, which is more than 0.2.
C25_CoolsTowardFifth ==
    Cooling =>
        /\ iteration = 0 => temperature = Whole(1)
        /\ iteration > 0 =>
              /\ Less(temperature,
                      Temperature(iteration - 1, config[1].iterations))
              /\ Minus(Temperature(iteration - 1, config[1].iterations),
                       temperature)
                     = Over(Frac(8, 10), Whole(config[1].iterations))
        /\ iteration = config[1].iterations - 1 =>
              temperature = Plus(Frac(2, 10),
                                 Over(Frac(8, 10), Whole(config[1].iterations)))
        /\ Less(Frac(2, 10), temperature)

\* The last of two or more steps is about to update the positions of nodes
\* that have velocities.
C25_Witness ==
    /\ Cooling
    /\ config[1].iterations >= 2
    /\ iteration = config[1].iterations - 1
    /\ \E k \in 1..Len(nodes) : nodes[k].velocity # Vec3(0, 0, 0)

---------------------------------------------------------------------------
(* C26 *)

\* The places of a simulation step.
InStep ==
    pc \in {"resetForces", "repulsion", "calculateForce", "attraction",
            "centerForce", "generationForce", "updatePositions"}

\* The octree is built in the repulsion of a step that uses it, from the
\* positions that the nodes have since the start of the step and from nothing
\* else, and no other part of a step touches it.
BuiltOncePerStep ==
    /\ (pc = "repulsion" /\ useBarnesHut) =>
          /\ positions' = NodePositions(nodes)
          /\ root' = Build(NodePositions(nodes)).root
          /\ pc' \in {"calculateForce", "RangeError"}
    /\ (InStep /\ ~(pc = "repulsion" /\ useBarnesHut)) =>
          /\ root' = root
          /\ positions' = positions
          /\ pc' # "calculateForce"
    /\ pc \in {"resetForces", "repulsion", "calculateForce"} =>
          NodePositions(nodes') = NodePositions(nodes)

\* While the forces are asked, the octree is the one of the node positions.
TreeOfStep ==
    pc = "calculateForce" =>
        /\ useBarnesHut
        /\ positions = NodePositions(nodes)
        /\ root = Build(positions).root

\* C26: with octree repulsion, every simulation step builds the tree once,
\* before its force queries and from the node positions at the start of the
\* step; the tree is the one that build gives for these positions alone,
\* whatever an earlier build left, and it stays as built until the last
\* force query of the step.
C26_TreeRebuiltEveryStep ==
    /\ []TreeOfStep
    /\ [][BuiltOncePerStep]_vars

\* The forces of the second step of a call are about to be asked of an
\* octree of more than 100 bodies.
C26_Witness ==
    /\ pc = "calculateForce"
    /\ iteration = 1
    /\ root # None
    /\ root[1].mass = Len(nodes)
    /\ Len(nodes) > BARNES_HUT_THRESHOLD

---------------------------------------------------------------------------
(* C27 *)

\* The ids of the nodes given to calculate.
PassedIds == {nodes[k].id : k \in 1..Len(nodes)}

\* An edge of which an endpoint is not among the nodes given to calculate.
EndpointMissing(edge) ==
    edge.sourceId \notin PassedIds \/ edge.targetId \notin PassedIds

BothPassed(edge) == ~EndpointMissing(edge)

\* A step of calculate leaves all but the positions and velocities of the
\* nodes as it is, and the attraction is the one of the edges whose two
\* endpoints are among the nodes, after which the step goes on.
OnlyPositionsAndVelocities ==
    pc # "returned" =>
        /\ Len(nodes') = Len(nodes)
        /\ \A k \in 1..Len(nodes) :
              /\ nodes'[k].id = nodes[k].id
              /\ nodes'[k].generation = nodes[k].generation
              /\ nodes'[k].biographyWeight = nodes[k].biographyWeight
              /\ nodes'[k].connections = nodes[k].connections
              /\ DOMAIN nodes'[k] = DOMAIN nodes[k]
        /\ edges' = edges
        /\ pc = "attraction" =>
              /\ nodes' = ApplyAttraction(nodes, SelectSeq(edges, BothPassed),
                                          config[1], 1)
              /\ pc' = "centerForce"

\* C27: calculate changes only the position and the velocity of the nodes it
\* is given: the number and the ids of the nodes, their generation,
\* biographyWeight and connections and the edge list stay as they are, and
\* the attraction skips an edge with an endpoint that is not among the nodes.
C27_OnlyPositionsAndVelocitiesChange ==
    [][OnlyPositionsAndVelocities]_vars

\* A call of at least one step has returned for two nodes or more that have
\* moved, with an edge between two of them and an edge with an endpoint that
\* is not among them.
C27_Witness ==
    /\ CalculateReturned
    /\ iteration >= 1
    /\ Len(nodes) >= 2
    /\ \E e \in 1..Len(edges) : EndpointMissing(edges[e])
    /\ \E e \in 1..Len(edges) : BothPassed(edges[e])
    /\ \A k \in 1..Len(nodes) :
          /\ nodes[k].position # Vec3(0, 0, 0)
          /\ nodes[k].velocity # Vec3(0, 0, 0)
          /\ nodes[k].connections # <<>>

---------------------------------------------------------------------------
(* C28 *)

\* The call before this one was made on equal nodes, edges, focal id and
\* configuration, and drew the same random values.
SameCallAsEarlier ==
    /\ earlier # None
    /\ AsBuilt(nodes) = AsBuilt(earlier[1].nodes)
    /\ edges = earlier[1].edges
    /\ centeredId = earlier[1].centeredId
    /\ config[1] = earlier[1].config
    /\ random[1].seed = earlier[1].seed

\* C28: two runs of calculate on equal nodes, edges, focal id and
\* configuration that draw the same random values leave every node at the
\* same position.
C28_SameInputsSamePositions ==
    (CalculateReturned /\ SameCallAsEarlier) =>
        NodePositions(nodes) = NodePositions(earlier[1].nodes)

\* A second call of at least one step has returned for the node objects
\* that the first call left, two or more of them, away from the origin.
C28_Witness ==
    /\ CalculateReturned
    /\ SameCallAsEarlier
    /\ calls = 2
    /\ iteration >= 1
    /\ Len(nodes) >= 2
    /\ edges # <<>>
    /\ \A k \in 1..Len(nodes) : nodes[k].position # Vec3(0, 0, 0)

=============================================================================
